---- MODULE Spec2Model ----
(***************************************************************************)
(* ARM LPAE io-pgtable allocator (drivers/iommu/io-pgtable-arm.c): the     *)
(* translation tree and the operations map, map_sg, unmap, iova_to_phys.   *)
(*                                                                         *)
(* The code's formulas are kept; the configuration is scaled so that the   *)
(* tree is small: descriptors are 8 bytes, the granule is 32 bytes, hence  *)
(* pg_shift = 5, bits_per_level = 2 (4 descriptors per table).  The block  *)
(* sizes of levels 3, 2, 1 are 32, 128, 512 bytes and stand for 4 KiB,     *)
(* 2 MiB, 1 GiB.  SZ_2M, hard coded in the source, is scaled with them.    *)
(*                                                                         *)
(* A descriptor is a record of its bit fields:                             *)
(*   type  bits 1..0         lo   bits 11..2  (attributes / counter low)   *)
(*   addr  bits 47..pg_shift, kept as a byte address                       *)
(*   hi    bits 58..52       (XN / counter high)     nst  bit 63           *)
(***************************************************************************)
EXTENDS Integers, Sequences, FiniteSets, TLC

VARIABLES cfg, pt, live, wild, dfree, bug, last, old, nops, cur, strict
\* xt_quota2 (net/netfilter/xt_quota2.c): the named counters
VARIABLES counter_list, counter_list_lock, counters, rule
\* dwc3 (drivers/usb/dwc3/ep0.c): the controller driver, the host and the
\* controller, the gadget driver, and what happened in the control transfer
VARIABLES dwc, host, gadget, xfer

io_vars == <<cfg, pt, live, wild, dfree, bug, last, old, nops, cur, strict>>

q2_vars == <<counter_list, counter_list_lock, counters, rule>>

ep0_vars == <<dwc, host, gadget, xfer>>

vars == <<io_vars, q2_vars, ep0_vars>>

\* ------------------------------------------------------------ arithmetic

RECURSIVE Pow2(_)
Pow2(n) == IF n <= 0 THEN 1 ELSE 2 * Pow2(n - 1)

\* fls(n) - 1: index of the highest set bit, -1 for 0
RECURSIVE ilog2(_)
ilog2(n) == IF n <= 0 THEN -1 ELSE IF n = 1 THEN 0 ELSE 1 + ilog2(n \div 2)

\* index of the lowest set bit of n > 0
RECURSIVE __ffs(_)
__ffs(n) == IF n % 2 = 1 THEN 0 ELSE 1 + __ffs(n \div 2)

__fls(n) == ilog2(n)

RECURSIVE BitOr(_, _)
BitOr(a, b) ==
    IF a = 0 THEN b
    ELSE IF b = 0 THEN a
    ELSE (IF a % 2 = 1 \/ b % 2 = 1 THEN 1 ELSE 0) + 2 * BitOr(a \div 2, b \div 2)

RECURSIVE BitAnd(_, _)
BitAnd(a, b) ==
    IF a = 0 \/ b = 0 THEN 0
    ELSE (IF a % 2 = 1 /\ b % 2 = 1 THEN 1 ELSE 0) + 2 * BitAnd(a \div 2, b \div 2)

Min(a, b) == IF a <= b THEN a ELSE b

\* the result r of a call, handed to what follows the call
Then(r, K(_)) == K(r)

SetMin(S) == CHOOSE x \in S : \A y \in S : x <= y
SetMax(S) == CHOOSE x \in S : \A y \in S : y <= x

round_down(x, a) == x - (x % a)

IS_ALIGNED(x, a) == x % a = 0

\* --------------------------------------------------------- configuration

\* io_pgtable_cfg as the allocator leaves it (the scaled 4K|2M|1G bitmap)
cfg_pgsize_bitmap == {32, 128, 512}

\* input address size in bits
cfg_ias == 10

\* output address size in bits, below what a descriptor can hold
cfg_oas == 11

ARM_LPAE_MAX_ADDR_BITS == 12
ARM_LPAE_MAX_LEVELS == 4
sizeof_iopte == 8

\* the 2 MiB of the source, scaled to the level-2 block of the granule
SZ_2M == 128

\* --------------------------------------------------------------- geometry

pg_shift == __ffs(SetMin(cfg_pgsize_bitmap))
bits_per_level == pg_shift - ilog2(sizeof_iopte)
va_bits == cfg_ias - pg_shift
levels == (va_bits + bits_per_level - 1) \div bits_per_level
pgd_bits == va_bits - (bits_per_level * (levels - 1))
pgd_size == Pow2(pgd_bits + ilog2(sizeof_iopte))

ARM_LPAE_START_LVL == ARM_LPAE_MAX_LEVELS - levels

ARM_LPAE_LVL_SHIFT(l) ==
    ((levels - (l - ARM_LPAE_START_LVL + 1)) * bits_per_level) + pg_shift

ARM_LPAE_PAGES_PER_PGD == pgd_size \div Pow2(pg_shift)

ARM_LPAE_PGD_IDX(l) ==
    IF l = ARM_LPAE_START_LVL THEN ilog2(ARM_LPAE_PAGES_PER_PGD) ELSE 0

ARM_LPAE_LVL_IDX(a, l) ==
    (a \div Pow2(ARM_LPAE_LVL_SHIFT(l))) % Pow2(bits_per_level + ARM_LPAE_PGD_IDX(l))

ARM_LPAE_BLOCK_SIZE(l) ==
    Pow2(ilog2(sizeof_iopte) + ((ARM_LPAE_MAX_LEVELS - l) * bits_per_level))

Granule == Pow2(pg_shift)
PtesPerTable == Pow2(bits_per_level)
PgdEntries == pgd_size \div sizeof_iopte
IovaSpace == Pow2(cfg_ias)

\* ------------------------------------------------------------ descriptors

ARM_LPAE_PTE_TYPE_BLOCK == 1
ARM_LPAE_PTE_TYPE_TABLE == 3
ARM_LPAE_PTE_TYPE_PAGE == 3

\* attribute bits, as values of the lo field (bit n of the word is bit n-2)
LO_AF == 256
LO_SH_IS == 192
LO_NS == 8
LO_nG == 512
LO_AP_PRIV_RW == 0
LO_AP_RW == 16
LO_AP_PRIV_RO == 32
LO_AP_RO == 48
LO_HAP_READ == 16
LO_HAP_WRITE == 32
LO_MEMATTR_OIWB == 15
LO_MEMATTR_NC == 5
LO_MEMATTR_DEV == 1
ARM_LPAE_MAIR_ATTR_IDX_NC == 0
ARM_LPAE_MAIR_ATTR_IDX_CACHE == 1
ARM_LPAE_MAIR_ATTR_IDX_DEV == 2
\* XN = 3 << 53, as a value of the hi field (bits 58..52)
HI_XN == 6
\* ARM_LPAE_PTE_ATTR_HI_MASK = 6 << 52, ARM_LPAE_PTE_ATTR_LO_MASK = 0x3ff << 2
HI_ATTR_MASK == 6
LO_ATTR_MASK == 1023

BOTTOM_IGNORED_MASK == 1023
BOTTOM_IGNORED_NUM_BITS == 10
TOP_IGNORED_MASK == 127

ZeroPte == [type |-> 0, lo |-> 0, addr |-> 0, hi |-> 0, nst |-> 0]

PteValid(pte) == pte.type % 2 = 1

iopte_val(pte) == [pte EXCEPT !.lo = 0, !.hi = 0]

iopte_tblcnt(pte) == pte.lo + pte.hi * Pow2(BOTTOM_IGNORED_NUM_BITS)

iopte_tblcnt_set(pte, val) ==
    [iopte_val(pte) EXCEPT
        !.lo = val % (BOTTOM_IGNORED_MASK + 1),
        !.hi = (val \div Pow2(BOTTOM_IGNORED_NUM_BITS)) % (TOP_IGNORED_MASK + 1)]

iopte_type(pte) == pte.type

iopte_leaf(pte, l) ==
    IF l = ARM_LPAE_MAX_LEVELS - 1
    THEN iopte_type(pte) = ARM_LPAE_PTE_TYPE_PAGE
    ELSE iopte_type(pte) = ARM_LPAE_PTE_TYPE_BLOCK

iopte_prot(pte) ==
    [lo |-> BitAnd(pte.lo, LO_ATTR_MASK), hi |-> BitAnd(pte.hi, HI_ATTR_MASK)]

iopte_to_pfn(pte) == (pte.addr % Pow2(ARM_LPAE_MAX_ADDR_BITS)) \div Pow2(pg_shift)

pfn_to_iopte(pfn) == (pfn * Pow2(pg_shift)) % Pow2(ARM_LPAE_MAX_ADDR_BITS)

\* ------------------------------------------------------------ the memory

\* number of calls a behaviour makes
MaxOps == 3

\* table ids the page allocator can hand out; id 0 is the pgd
MaxTables == 2 * MaxOps + 2

EEXIST == 17
ENOMEM == 12
EINVAL == 22

\* table ids that are no page table: the variable `table` of
\* arm_lpae_split_blk_unmap, memory that holds no page table, no table
LOCAL_T == 0 - 1
WILD_T == 0 - 2
NULL_T == 0 - 3
NULL == <<NULL_T, 0>>

\* an allocation count that no call reaches: the allocator does not fail
NoFail == 99

ZeroTable(t) == [i \in 0 .. ((IF t = 0 THEN PgdEntries ELSE PtesPerTable) - 1) |-> ZeroPte]

ZeroMs ==
    [iova_end |-> 0, pgsize |-> 0, pgtable |-> NULL_T, prev_pgtable |-> NULL,
     pte_start |-> NULL, num_pte |-> 0]

\* what a read of memory that is no page table can return
WildPte(o) ==
    IF o = "zero" THEN ZeroPte
    ELSE IF o = "valid" THEN [ZeroPte EXCEPT !.type = 3]
    ELSE [ZeroPte EXCEPT !.type = 2]

\* the state a call works on: the tables, the call's locals and its inputs
\* from the environment (allocations that succeed, content of foreign memory,
\* suppress_map_failures); asked records which of them the call read
Heap(c, p, l, w, d, budget, oracle, suppress) ==
    [cfg |-> c, pt |-> p, live |-> l, wild |-> w, dfree |-> d,
     local |-> ZeroPte, ms |-> ZeroMs, log |-> <<>>, bug |-> FALSE,
     budget |-> budget, oracle |-> oracle, suppress |-> suppress, asked |-> {}]

Ev(h, e, t, i, n) == [h EXCEPT !.log = Append(@, [e |-> e, t |-> t, i |-> i, n |-> n])]

ReadSlot(h, r) ==
    IF r[1] = LOCAL_T THEN h.local
    ELSE IF r[1] = WILD_T THEN WildPte(h.oracle[r[2]])
    ELSE h.pt[r[1]][r[2]]

WriteSlot(h, r, v) ==
    IF r[1] = LOCAL_T THEN [h EXCEPT !.local = v]
    ELSE IF r[1] = WILD_T THEN Ev([h EXCEPT !.wild = TRUE], "write", WILD_T, r[2], 1)
    ELSE Ev([h EXCEPT !.pt[r[1]][r[2]] = v], "write", r[1], r[2], 1)

\* tlb->flush_pgtable(ptr, n * sizeof(pte), cookie)
flush_pgtable(h, r, n) == Ev(h, "flush", r[1], r[2], n)

\* slot of iova in the table tb at level lvl (ptep += ARM_LPAE_LVL_IDX)
SlotOf(tb, iova, lvl) ==
    IF tb = LOCAL_T THEN <<LOCAL_T, 0>>
    ELSE IF tb = WILD_T THEN <<WILD_T, lvl>>
    ELSE <<tb, ARM_LPAE_LVL_IDX(iova, lvl)>>

\* __pa() and __va() of a table
__pa(t) == t * Granule
__va(a) == a \div Granule

\* iopte_deref: a table descriptor leads to its table; the output address of
\* anything else is no page table
iopte_deref(pte) ==
    IF iopte_type(pte) = ARM_LPAE_PTE_TYPE_TABLE
    THEN __va(iopte_val(pte).addr % Pow2(ARM_LPAE_MAX_ADDR_BITS))
    ELSE WILD_T

\* the table a walk reaches through the descriptor pte read at slot r
NextTable(r, pte) == IF r[1] = WILD_T THEN WILD_T ELSE iopte_deref(pte)

\* GFP_ATOMIC | __GFP_ZERO allocation of one granule; 0 is the null pointer
io_pgtable_alloc_pages_exact(h) ==
    LET free == (1 .. MaxTables) \ h.live IN
    IF h.budget = 0 \/ free = {}
    THEN [h |-> Ev([h EXCEPT !.asked = @ \cup {"budget"}], "nomem", NULL_T, 0, 0), t |-> 0]
    ELSE LET t == SetMin(free) IN
         [h |-> Ev([h EXCEPT !.live = @ \cup {t}, !.asked = @ \cup {"budget"},
                             !.pt[t] = ZeroTable(t),
                             !.budget = IF @ = NoFail THEN @ ELSE @ - 1],
                   "alloc", t, 0, PtesPerTable),
          t |-> t]

io_pgtable_free_pages_exact(h, t) ==
    IF t \in h.live
    THEN Ev([h EXCEPT !.live = @ \ {t}, !.pt[t] = ZeroTable(t)], "free", t, 0, PtesPerTable)
    ELSE Ev([h EXCEPT !.dfree = TRUE], "free", t, 0, PtesPerTable)

\* a counter that is never decremented
iopte_tblcnt_sub_kept(h, r, cnt) == h

iopte_tblcnt_sub(h, r, cnt) ==
    LET pte == ReadSlot(h, r) IN
    WriteSlot(h, r, iopte_tblcnt_set(pte, iopte_tblcnt(pte) - cnt))

iopte_tblcnt_add(h, r, cnt) ==
    LET pte == ReadSlot(h, r) IN
    WriteSlot(h, r, iopte_tblcnt_set(pte, iopte_tblcnt(pte) + cnt))

\* -------------------------------------------------------------------- map

\* largest page size of the bitmap that the alignment of addr_merge allows
\* and that does not exceed size (0 where the kernel would BUG)
iommu_pgsize(pgsize_bitmap, addr_merge, size) ==
    LET idx == IF addr_merge # 0 THEN Min(__fls(size), __ffs(addr_merge)) ELSE __fls(size)
        fit == {s \in pgsize_bitmap : s < Pow2(idx + 1)}
    IN IF fit = {} THEN 0 ELSE SetMax(fit)

MAP_STATE_LVL == 3

IsS1(fmt) == fmt \in {"ARM_64_LPAE_S1", "ARM_32_LPAE_S1"}

arm_lpae_prot_to_pte(fmt, prot) ==
    LET s1ap == IF "WRITE" \in prot
                THEN (IF "PRIV" \in prot THEN LO_AP_PRIV_RW ELSE LO_AP_RW)
                ELSE (IF "PRIV" \in prot THEN LO_AP_PRIV_RO ELSE LO_AP_RO)
        s1 == BitOr(BitOr(BitOr(LO_nG, s1ap),
                          IF "CACHE" \in prot THEN ARM_LPAE_MAIR_ATTR_IDX_CACHE ELSE 0),
                    IF "DEVICE" \in prot THEN ARM_LPAE_MAIR_ATTR_IDX_DEV ELSE 0)
        s2 == BitOr(BitOr(BitOr(IF "READ" \in prot THEN LO_HAP_READ ELSE 0,
                                IF "WRITE" \in prot THEN LO_HAP_WRITE ELSE 0),
                          IF "CACHE" \in prot THEN LO_MEMATTR_OIWB ELSE LO_MEMATTR_NC),
                    IF "DEVICE" \in prot THEN LO_MEMATTR_DEV ELSE 0)
    IN [lo |-> IF IsS1(fmt) THEN s1 ELSE s2,
        hi |-> IF "NOEXEC" \in prot THEN HI_XN ELSE 0]

\* the descriptor arm_lpae_init_pte builds
LeafPte(quirks, paddr, prot, lvl) ==
    [type |-> IF lvl = ARM_LPAE_MAX_LEVELS - 1
              THEN ARM_LPAE_PTE_TYPE_PAGE ELSE ARM_LPAE_PTE_TYPE_BLOCK,
     lo |-> BitOr(BitOr(prot.lo, IF "ARM_NS" \in quirks THEN LO_NS ELSE 0),
                  BitOr(LO_AF, LO_SH_IS)),
     addr |-> pfn_to_iopte(paddr \div Pow2(pg_shift)),
     hi |-> prot.hi,
     nst |-> 0]

arm_lpae_init_pte(h, iova, paddr, prot, lvl, ptep, prev_ptep, flush) ==
    IF PteValid(ReadSlot(h, ptep))
    THEN [h |-> [h EXCEPT !.bug = ~h.suppress, !.asked = @ \cup {"suppress"}], ret |-> 0 - EEXIST]
    ELSE LET h1 == WriteSlot(h, ptep, LeafPte(h.cfg.quirks, paddr, prot, lvl))
             h2 == IF flush THEN flush_pgtable(h1, ptep, 1) ELSE h1
             h3 == IF prev_ptep # NULL THEN iopte_tblcnt_add(h2, prev_ptep, 1) ELSE h2
         IN [h |-> h3, ret |-> 0]

\* a table descriptor that leads past the table it was made for
TablePte_astray(quirks, t) ==
    [type |-> ARM_LPAE_PTE_TYPE_TABLE, lo |-> 0, addr |-> __pa(t + 1), hi |-> 0,
     nst |-> IF "ARM_NS" \in quirks THEN 1 ELSE 0]

\* a table descriptor that is created with a use already counted
TablePte_counted(quirks, t) ==
    [type |-> ARM_LPAE_PTE_TYPE_TABLE, lo |-> 1, addr |-> __pa(t), hi |-> 0,
     nst |-> IF "ARM_NS" \in quirks THEN 1 ELSE 0]

\* the descriptor __arm_lpae_map writes for a new table
TablePte(quirks, t) ==
    [type |-> ARM_LPAE_PTE_TYPE_TABLE, lo |-> 0, addr |-> __pa(t), hi |-> 0,
     nst |-> IF "ARM_NS" \in quirks THEN 1 ELSE 0]

\* a flush of the map state that publishes its first slot only
FlushMs_first(h) ==
    IF h.ms.pgtable # NULL_T THEN flush_pgtable(h, h.ms.pte_start, 1) ELSE h

\* the flush of the leaves that the map state has batched
FlushMs(h) ==
    IF h.ms.pgtable # NULL_T THEN flush_pgtable(h, h.ms.pte_start, h.ms.num_pte) ELSE h

RECURSIVE __arm_lpae_map(_, _, _, _, _, _, _, _, _)
__arm_lpae_map(h, iova, paddr, size, prot, lvl, pgtable, prev_ptep, ms) ==
    LET block_size == ARM_LPAE_BLOCK_SIZE(lvl)
        ptep == SlotOf(pgtable, iova, lvl)
    IN
    IF size = block_size /\ size \in h.cfg.pgsize_bitmap
    THEN IF ~ms
         THEN arm_lpae_init_pte(h, iova, paddr, prot, lvl, ptep, prev_ptep, TRUE)
         ELSE IF lvl = MAP_STATE_LVL
         THEN LET h1 == [FlushMs(h) EXCEPT !.ms =
                            [iova_end |-> round_down(iova, SZ_2M) + SZ_2M,
                             pgsize |-> size, pgtable |-> pgtable,
                             prev_pgtable |-> prev_ptep, pte_start |-> ptep,
                             num_pte |-> 1]]
              IN arm_lpae_init_pte(h1, iova, paddr, prot, lvl, ptep, prev_ptep, FALSE)
         ELSE LET h1 == [FlushMs(h) EXCEPT !.ms = ZeroMs]
              IN arm_lpae_init_pte(h1, iova, paddr, prot, lvl, ptep, prev_ptep, TRUE)
    ELSE IF lvl >= ARM_LPAE_MAX_LEVELS - 1
    THEN [h |-> h, ret |-> 0 - EINVAL]
    ELSE LET pte == ReadSlot(h, ptep) IN
         IF pte = ZeroPte
         THEN LET a == io_pgtable_alloc_pages_exact(h) IN
              IF a.t = 0
              THEN [h |-> a.h, ret |-> 0 - ENOMEM]
              ELSE LET h1 == flush_pgtable(a.h, <<a.t, 0>>, Granule \div sizeof_iopte)
                       h2 == WriteSlot(h1, ptep, TablePte(h.cfg.quirks, a.t))
                       h3 == flush_pgtable(h2, ptep, 1)
                   IN __arm_lpae_map(h3, iova, paddr, size, prot, lvl + 1, a.t, ptep, ms)
         ELSE __arm_lpae_map(IF NextTable(ptep, pte) = WILD_T
                             THEN [h EXCEPT !.asked = @ \cup {"oracle"}] ELSE h,
                             iova, paddr, size, prot, lvl + 1,
                             NextTable(ptep, pte), ptep, ms)

\* a map that walks whatever prot says
arm_lpae_map_careless(h, iova, paddr, size, iommu_prot) ==
    __arm_lpae_map(h, iova, paddr, size, arm_lpae_prot_to_pte(h.cfg.fmt, iommu_prot),
                   ARM_LPAE_START_LVL, 0, NULL, FALSE)

arm_lpae_map(h, iova, paddr, size, iommu_prot) ==
    IF iommu_prot \cap {"READ", "WRITE"} = {}
    THEN [h |-> h, ret |-> 0]
    ELSE __arm_lpae_map(h, iova, paddr, size,
                        arm_lpae_prot_to_pte(h.cfg.fmt, iommu_prot),
                        ARM_LPAE_START_LVL, 0, NULL, FALSE)

\* ----------------------------------------------------------------- map_sg

\* the value of *size that map_sg leaves alone when it succeeds
NOT_SET == 0 - 1

RECURSIVE SgWhile(_, _, _, _, _, _)
\* the while (size) loop of arm_lpae_map_sg for one chunk
SgWhile(h, iova, phys, size, prot, mapped) ==
    IF size = 0
    THEN [h |-> h, ret |-> 0, iova |-> iova, mapped |-> mapped]
    ELSE LET pgsize == iommu_pgsize(h.cfg.pgsize_bitmap, BitOr(iova, phys), size)
             Batched(i) ==
                IF i.ret # 0 THEN i
                ELSE [h |-> [i.h EXCEPT !.ms.num_pte = @ + 1], ret |-> 0]
             K(r) ==
                IF r.ret # 0
                THEN [h |-> r.h, ret |-> r.ret, iova |-> iova, mapped |-> mapped]
                ELSE SgWhile(r.h, iova + pgsize, phys + pgsize, size - pgsize, prot,
                             mapped + pgsize)
         IN IF pgsize = 0
            THEN [h |-> [h EXCEPT !.bug = TRUE], ret |-> 0 - EINVAL, iova |-> iova,
                  mapped |-> mapped]
            ELSE IF h.ms.pgtable # NULL_T /\ iova < h.ms.iova_end
            THEN Then(Then(arm_lpae_init_pte(h, iova, phys, prot, MAP_STATE_LVL,
                                             SlotOf(h.ms.pgtable, iova, MAP_STATE_LVL),
                                             h.ms.prev_pgtable, FALSE), Batched), K)
            ELSE Then(__arm_lpae_map(h, iova, phys, pgsize, prot, ARM_LPAE_START_LVL,
                                     0, NULL, TRUE), K)

RECURSIVE SgFor(_, _, _, _, _, _)

\* a loop that forgets what it mapped when it meets a misaligned offset
SgFor_forgetful(h, iova, sg, i, prot, mapped) ==
    IF i > Len(sg)
    THEN [h |-> FlushMs(h), ret |-> mapped, size |-> NOT_SET, why |-> "ok"]
    ELSE IF ~IS_ALIGNED(sg[i].offset, SetMin(h.cfg.pgsize_bitmap))
    THEN [h |-> h, ret |-> 0, size |-> 0, why |-> "offset"]
    ELSE LET K(r) ==
                IF r.ret # 0
                THEN [h |-> r.h, ret |-> 0, size |-> r.mapped, why |-> "map"]
                ELSE SgFor(r.h, r.iova, sg, i + 1, prot, r.mapped)
         IN Then(SgWhile(h, iova, sg[i].page + sg[i].offset, sg[i].length, prot, mapped), K)

\* the for_each_sg loop of arm_lpae_map_sg from chunk i on
SgFor(h, iova, sg, i, prot, mapped) ==
    IF i > Len(sg)
    THEN [h |-> FlushMs(h), ret |-> mapped, size |-> NOT_SET, why |-> "ok"]
    ELSE IF ~IS_ALIGNED(sg[i].offset, SetMin(h.cfg.pgsize_bitmap))
    THEN [h |-> h, ret |-> 0, size |-> mapped, why |-> "offset"]
    ELSE LET K(r) ==
                IF r.ret # 0
                THEN [h |-> r.h, ret |-> 0, size |-> r.mapped, why |-> "map"]
                ELSE SgFor(r.h, r.iova, sg, i + 1, prot, r.mapped)
         IN Then(SgWhile(h, iova, sg[i].page + sg[i].offset, sg[i].length, prot, mapped), K)

arm_lpae_map_sg(h, iova, sg, iommu_prot) ==
    IF iommu_prot \cap {"READ", "WRITE"} = {}
    THEN [h |-> h, ret |-> 0, size |-> 0, why |-> "prot"]
    ELSE SgFor([h EXCEPT !.ms = ZeroMs], iova, sg, 1,
               arm_lpae_prot_to_pte(h.cfg.fmt, iommu_prot), 0)

\* ------------------------------------------------------------------- free

RECURSIVE FreeEntries(_, _, _, _)
\* __arm_lpae_free_pgtable of table t of level lvl, its while loop being at
\* entry i: the tables below the entries from i on are freed, then t itself
FreeEntries(h, lvl, t, i) ==
    IF lvl = ARM_LPAE_MAX_LEVELS - 1
       \/ i >= (IF lvl = ARM_LPAE_START_LVL THEN PgdEntries ELSE PtesPerTable)
    THEN io_pgtable_free_pages_exact(h, t)
    ELSE IF h.pt[t][i] = ZeroPte \/ iopte_leaf(h.pt[t][i], lvl)
    THEN FreeEntries(h, lvl, t, i + 1)
    ELSE FreeEntries(FreeEntries(h, lvl + 1, iopte_deref(h.pt[t][i]), 0), lvl, t, i + 1)

__arm_lpae_free_pgtable(h, lvl, t) == FreeEntries(h, lvl, t, 0)

\* the pgd goes back to the allocator with the tables below it
arm_lpae_free_pgtable(h) ==
    [h |-> __arm_lpae_free_pgtable([h EXCEPT !.live = @ \cup {0}], ARM_LPAE_START_LVL, 0),
     ret |-> 0]

\* ------------------------------------------------------------------ unmap

RECURSIVE SplitLoop(_, _, _, _, _, _, _, _, _)

\* a loop that keeps the table it allocated when a sub-block fails
SplitLoop_leaky(h, iova, size, prot, lvl, prev_ptep, blk_start, blk_end, blk_paddr) ==
    IF blk_start >= blk_end
    THEN [h |-> h, ok |-> TRUE]
    ELSE IF blk_start = iova
    THEN SplitLoop(h, iova, size, prot, lvl, prev_ptep,
                   blk_start + size, blk_end, blk_paddr + size)
    ELSE LET K(r) ==
                IF r.ret < 0
                THEN [h |-> r.h, ok |-> FALSE]
                ELSE SplitLoop(r.h, iova, size, prot, lvl, prev_ptep,
                               blk_start + size, blk_end, blk_paddr + size)
         IN Then(__arm_lpae_map(h, blk_start, blk_paddr, size, prot, lvl,
                                LOCAL_T, prev_ptep, FALSE), K)

\* the for loop of arm_lpae_split_blk_unmap
SplitLoop(h, iova, size, prot, lvl, prev_ptep, blk_start, blk_end, blk_paddr) ==
    IF blk_start >= blk_end
    THEN [h |-> h, ok |-> TRUE]
    ELSE IF blk_start = iova
    THEN SplitLoop(h, iova, size, prot, lvl, prev_ptep,
                   blk_start + size, blk_end, blk_paddr + size)
    ELSE LET K(r) ==
                IF r.ret < 0
                THEN [h |-> IF r.h.local # ZeroPte
                            THEN __arm_lpae_free_pgtable(r.h, lvl + 1, iopte_deref(r.h.local))
                            ELSE r.h,
                      ok |-> FALSE]
                ELSE SplitLoop(r.h, iova, size, prot, lvl, prev_ptep,
                               blk_start + size, blk_end, blk_paddr + size)
         IN Then(__arm_lpae_map(h, blk_start, blk_paddr, size, prot, lvl,
                                LOCAL_T, prev_ptep, FALSE), K)

arm_lpae_split_blk_unmap(h, iova, size0, prot, lvl, ptep, prev_ptep, blk_size) ==
    LET blk_start == round_down(iova, blk_size)
        blk_end == blk_start + blk_size
        blk_paddr == iopte_to_pfn(ReadSlot(h, ptep)) * Pow2(pg_shift)
        size == ARM_LPAE_BLOCK_SIZE(lvl + 1)
        K(r) ==
            IF ~r.ok
            THEN [h |-> r.h, ret |-> 0]
            ELSE [h |-> flush_pgtable(WriteSlot(r.h, ptep, r.h.local), ptep, 1),
                  ret |-> size]
    IN Then(SplitLoop([h EXCEPT !.local = ZeroPte], iova, size, prot, lvl, prev_ptep,
                      blk_start, blk_end, blk_paddr), K)

\* a memset without effect
ClearPtes_kept(h, t, off, n) == Ev(h, "write", t, off, n)

\* memset(table + off, 0, n * sizeof(pte))
ClearPtes(h, t, off, n) ==
    Ev([h EXCEPT !.pt[t] = [i \in DOMAIN @ |-> IF i >= off /\ i < off + n THEN ZeroPte ELSE @[i]]],
       "write", t, off, n)

RECURSIVE __arm_lpae_unmap(_, _, _, _, _, _)
__arm_lpae_unmap(h, iova, size, lvl, pgtable, prev_ptep) ==
    LET blk_size == ARM_LPAE_BLOCK_SIZE(lvl)
        ptep == SlotOf(pgtable, iova, lvl)
        pte == ReadSlot(h, ptep)
    IN
    IF pte = ZeroPte \/ lvl = ARM_LPAE_MAX_LEVELS
    THEN [h |-> h, ret |-> 0]
    ELSE IF size = blk_size
    THEN LET h1 == flush_pgtable(WriteSlot(h, ptep, ZeroPte), ptep, 1)
             h2 == IF ~iopte_leaf(pte, lvl)
                   THEN __arm_lpae_free_pgtable(h1, lvl + 1, iopte_deref(pte))
                   ELSE h1
         IN [h |-> h2, ret |-> size]
    ELSE IF lvl = ARM_LPAE_MAX_LEVELS - 2 /\ ~iopte_leaf(pte, lvl)
    THEN LET table == iopte_deref(pte)
             tl_offset == ARM_LPAE_LVL_IDX(iova, lvl + 1)
             entry_size == Pow2(pg_shift)
             max_entries == ARM_LPAE_BLOCK_SIZE(lvl) \div entry_size
             entries == Min(size \div entry_size, max_entries - tl_offset)
             h1 == flush_pgtable(ClearPtes(h, table, tl_offset, entries),
                                 <<table, tl_offset>>, entries)
             h2 == iopte_tblcnt_sub(h1, ptep, entries)
             h3 == IF iopte_tblcnt(ReadSlot(h2, ptep)) = 0
                   THEN io_pgtable_free_pages_exact(
                            flush_pgtable(WriteSlot(h2, ptep, ZeroPte), ptep, 1), table)
                   ELSE h2
         IN [h |-> h3, ret |-> entries * entry_size]
    ELSE IF iopte_leaf(pte, lvl)
    THEN arm_lpae_split_blk_unmap(h, iova, size, iopte_prot(pte), lvl, ptep,
                                  prev_ptep, blk_size)
    ELSE __arm_lpae_unmap(h, iova, size, lvl + 1, iopte_deref(pte), ptep)

RECURSIVE UnmapLoop(_, _, _, _)

\* a loop that makes one walk and stops
UnmapLoop_once(h, iova, size, unmapped) ==
    IF ~(unmapped < size)
    THEN [h |-> h, ret |-> unmapped]
    ELSE LET remaining == size - unmapped
             size_to_unmap == IF remaining < SZ_2M
                              THEN remaining
                              ELSE iommu_pgsize(h.cfg.pgsize_bitmap, iova, remaining)
             K(r) == [h |-> r.h, ret |-> unmapped + r.ret]
         IN Then(__arm_lpae_unmap(h, iova, size_to_unmap, ARM_LPAE_START_LVL, 0, NULL), K)

\* the while loop of arm_lpae_unmap
UnmapLoop(h, iova, size, unmapped) ==
    IF ~(unmapped < size)
    THEN [h |-> h, ret |-> unmapped]
    ELSE LET remaining == size - unmapped
             size_to_unmap == IF remaining < SZ_2M
                              THEN remaining
                              ELSE iommu_pgsize(h.cfg.pgsize_bitmap, iova, remaining)
             K(r) ==
                IF r.ret = 0
                THEN [h |-> r.h, ret |-> unmapped]
                ELSE UnmapLoop(r.h, iova + r.ret, size, unmapped + r.ret)
         IN Then(__arm_lpae_unmap(h, iova, size_to_unmap, ARM_LPAE_START_LVL, 0, NULL), K)

\* an unmap that invalidates the TLB whatever it unmapped
arm_lpae_unmap_eager(h, iova, size) ==
    LET K(r) == [h |-> Ev(r.h, "tlb_flush_all", NULL_T, 0, 0), ret |-> r.ret]
    IN Then(UnmapLoop(h, iova, size, 0), K)

arm_lpae_unmap(h, iova, size) ==
    LET K(r) ==
           IF r.ret # 0
           THEN [h |-> Ev(r.h, "tlb_flush_all", NULL_T, 0, 0), ret |-> r.ret]
           ELSE r
    IN Then(UnmapLoop(h, iova, size, 0), K)

\* ----------------------------------------------------------- iova_to_phys

RECURSIVE PhysWalk(_, _, _, _)
\* the do-while loop of arm_lpae_iova_to_phys over the tables p
PhysWalk(p, iova, lvl, t) ==
    IF t < 0
    THEN 0
    ELSE LET pte == p[t][ARM_LPAE_LVL_IDX(iova, lvl)] IN
         IF pte = ZeroPte
         THEN 0
         ELSE IF iopte_leaf(pte, lvl)
         THEN BitOr(iopte_to_pfn(pte) * Pow2(pg_shift),
                    iova % Pow2(ARM_LPAE_LVL_SHIFT(lvl)))
         ELSE IF lvl + 1 < ARM_LPAE_MAX_LEVELS
         THEN PhysWalk(p, iova, lvl + 1, iopte_deref(pte))
         ELSE 0

arm_lpae_iova_to_phys(p, iova) == PhysWalk(p, iova, ARM_LPAE_START_LVL, 0)

\* ------------------------------------------------------------- allocation

\* the allocator works on the sizes of the hardware, not on the scaled ones
PAGE_SIZE == 4096
SZ_4K == 4096
SZ_16K == 16384
SZ_64K == 65536
SZ_32M == 33554432
SZ_512M == 536870912
SZ_1G == 1073741824
\* ARM_LPAE_MAX_ADDR_BITS of the source, which the tables above scale down
HW_MAX_ADDR_BITS == 48
ARM_LPAE_S2_MAX_CONCAT_PAGES == 16
ARM_LPAE_TCR_SL0_SHIFT == 6
ARM_LPAE_TCR_SL0_MASK == 3
ARM_LPAE_TCR_T0SZ_SHIFT == 0
\* the position of TG0, which the source writes inside the ARM_LPAE_TCR_TG0_*
\* macros
ARM_LPAE_TCR_TG0_SHIFT == 14
ARM_LPAE_TCR_SH0_SHIFT == 12
ARM_LPAE_TCR_SH_IS == 3
ARM_LPAE_TCR_ORGN0_SHIFT == 10
ARM_LPAE_TCR_IRGN0_SHIFT == 8
ARM_LPAE_TCR_RGN_WBWA == 1
ARM_LPAE_TCR_PS_SHIFT == 16
ARM_LPAE_TCR_TG0_4K == 0
ARM_LPAE_TCR_TG0_64K == 1
ARM_LPAE_TCR_TG0_16K == 2

\* ~x & mask for x >= 0 and mask = 2^k - 1
NotAnd(x, mask) == mask - (x % (mask + 1))

\* a page size bitmap is the set of its sizes; a 2 MiB block is 512 * SZ_4K
arm_lpae_restrict_pgsizes(bitmap) ==
    LET below == {z \in bitmap : z < PAGE_SIZE}
        granule == IF PAGE_SIZE \in bitmap THEN PAGE_SIZE
                   ELSE IF below # {} THEN SetMax(below)
                   ELSE IF bitmap # {} THEN SetMin(bitmap)
                   ELSE 0
    IN IF granule = SZ_4K THEN bitmap \cap {SZ_4K, 512 * SZ_4K, SZ_1G}
       ELSE IF granule = SZ_16K THEN bitmap \cap {SZ_16K, SZ_32M}
       ELSE IF granule = SZ_64K THEN bitmap \cap {SZ_64K, SZ_512M}
       ELSE {}

\* what an allocation that fails returns
NoData ==
    [ok |-> FALSE, pg_shift |-> 0, bits_per_level |-> 0, levels |-> 0, pgd_size |-> 0,
     sl0 |-> 0, t0sz |-> 0, tg0 |-> 0, ps |-> 0, pgd |-> FALSE, vtcr |-> {}]

\* struct arm_lpae_io_pgtable for the configuration c
arm_lpae_alloc_pgtable(c) ==
    LET bitmap == arm_lpae_restrict_pgsizes(c.pgsize_bitmap) IN
    IF bitmap \cap {SZ_4K, SZ_16K, SZ_64K} = {}
       \/ c.ias > HW_MAX_ADDR_BITS \/ c.oas > HW_MAX_ADDR_BITS
    THEN NoData
    ELSE LET shift == __ffs(SetMin(bitmap))
             bpl == shift - ilog2(sizeof_iopte)
             bits == c.ias - shift
             lvls == (bits + bpl - 1) \div bpl
             pgd == bits - (bpl * (lvls - 1))
         IN [NoData EXCEPT !.ok = TRUE, !.pg_shift = shift, !.bits_per_level = bpl,
                           !.levels = lvls,
                           !.pgd_size = Pow2(pgd + ilog2(sizeof_iopte))]

\* a root that is widened whenever the walk has four levels
S2Concat_always(data) ==
    IF data.levels = ARM_LPAE_MAX_LEVELS
    THEN [data EXCEPT !.pgd_size = (data.pgd_size \div sizeof_iopte) * Pow2(data.pg_shift),
                      !.levels = @ - 1]
    ELSE data

\* concatenation of the pgds at level 1 (arm_64_lpae_alloc_pgtable_s2)
S2Concat(data) ==
    IF data.levels = ARM_LPAE_MAX_LEVELS
       /\ data.pgd_size \div sizeof_iopte <= ARM_LPAE_S2_MAX_CONCAT_PAGES
    THEN [data EXCEPT !.pgd_size = (data.pgd_size \div sizeof_iopte) * Pow2(data.pg_shift),
                      !.levels = @ - 1]
    ELSE data

\* the PS field of the oas, -1 for an oas the switch does not know
TcrPs(oas) ==
    IF oas = 32 THEN 0 ELSE IF oas = 36 THEN 1 ELSE IF oas = 40 THEN 2
    ELSE IF oas = 42 THEN 3 ELSE IF oas = 44 THEN 4 ELSE IF oas = 48 THEN 5 ELSE 0 - 1

\* an allocation that takes the start level before it concatenates
arm_64_lpae_alloc_pgtable_s2_early(c, pgd) ==
    LET data == arm_lpae_alloc_pgtable(c) IN
    IF ~data.ok
    THEN NoData
    ELSE LET d == S2Concat(data)
             start == ARM_LPAE_MAX_LEVELS - data.levels
             sl == IF Pow2(d.pg_shift) = SZ_4K THEN start + 1 ELSE start
         IN IF TcrPs(c.oas) < 0 \/ ~pgd
            THEN NoData
            ELSE [d EXCEPT !.sl0 = NotAnd(sl, ARM_LPAE_TCR_SL0_MASK),
                           !.t0sz = 64 - c.ias,
                           !.tg0 = IF Pow2(d.pg_shift) = SZ_4K THEN ARM_LPAE_TCR_TG0_4K
                                   ELSE IF Pow2(d.pg_shift) = SZ_16K
                                   THEN ARM_LPAE_TCR_TG0_16K
                                   ELSE ARM_LPAE_TCR_TG0_64K,
                           !.ps = TcrPs(c.oas),
                           !.pgd = TRUE]

\* the page table of stage 2 with the fields of its VTCR; pgd is whether the
\* allocation of the root succeeded
arm_64_lpae_alloc_pgtable_s2(c, pgd) ==
    LET data == arm_lpae_alloc_pgtable(c) IN
    IF ~data.ok
    THEN NoData
    ELSE LET d == S2Concat(data)
             start == ARM_LPAE_MAX_LEVELS - d.levels
             sl == IF Pow2(d.pg_shift) = SZ_4K THEN start + 1 ELSE start
         IN IF TcrPs(c.oas) < 0 \/ ~pgd
            THEN NoData
            ELSE [d EXCEPT !.sl0 = NotAnd(sl, ARM_LPAE_TCR_SL0_MASK),
                           !.t0sz = 64 - c.ias,
                           !.tg0 = IF Pow2(d.pg_shift) = SZ_4K THEN ARM_LPAE_TCR_TG0_4K
                                   ELSE IF Pow2(d.pg_shift) = SZ_16K
                                   THEN ARM_LPAE_TCR_TG0_16K
                                   ELSE ARM_LPAE_TCR_TG0_64K,
                           !.ps = TcrPs(c.oas),
                           !.pgd = TRUE]

\* bits 15..0 of the VTCR that arm_64_lpae_alloc_pgtable_s2 composes for the
\* page table d: SH0, IRGN0, ORGN0, TG0, T0SZ and SL0, ORed as the code does
S2VtcrLow(d) ==
    BitOr(BitOr(BitOr(ARM_LPAE_TCR_SH_IS * Pow2(ARM_LPAE_TCR_SH0_SHIFT),
                      ARM_LPAE_TCR_RGN_WBWA * Pow2(ARM_LPAE_TCR_IRGN0_SHIFT)),
                BitOr(ARM_LPAE_TCR_RGN_WBWA * Pow2(ARM_LPAE_TCR_ORGN0_SHIFT),
                      d.tg0 * Pow2(ARM_LPAE_TCR_TG0_SHIFT))),
          BitOr(d.t0sz * Pow2(ARM_LPAE_TCR_T0SZ_SHIFT),
                d.sl0 * Pow2(ARM_LPAE_TCR_SL0_SHIFT)))

\* A register of 64 bits is the set of the positions of its set bits, so that
\* bit 31 and the bits above it can be told apart; BitsOf is that set for a
\* field value and ShiftL is <<
BitsOf(v) == {k \in 0 .. 30 : (v \div Pow2(k)) % 2 = 1}

ShiftL(bits, n) == {k + n : k \in bits}

\* ARM_64_LPAE_S2_TCR_RES1 is (1 << 31), an expression of type int
ARM_64_LPAE_S2_TCR_RES1 == {31}

\* the conversion of an int to u64.  1 << 31 does not fit an int and the shift
\* is undefined: a build for which it is INT_MIN converts it with the sign,
\* setting bits 63..32 (sx), another may keep them clear
IntToU64(bits, sx) == IF 31 \in bits /\ sx THEN bits \cup (32 .. 63) ELSE bits

\* the VTCR that arm_64_lpae_alloc_pgtable_s2 stores for the page table d: a
\* first expression of ints, converted to u64 by the assignment to reg, and
\* the fields ORed into reg after it
S2Vtcr(d, sx) ==
    IntToU64(ARM_64_LPAE_S2_TCR_RES1
             \cup ShiftL(BitsOf(ARM_LPAE_TCR_SH_IS), ARM_LPAE_TCR_SH0_SHIFT)
             \cup ShiftL(BitsOf(ARM_LPAE_TCR_RGN_WBWA), ARM_LPAE_TCR_IRGN0_SHIFT)
             \cup ShiftL(BitsOf(ARM_LPAE_TCR_RGN_WBWA), ARM_LPAE_TCR_ORGN0_SHIFT), sx)
    \cup ShiftL(BitsOf(d.tg0), ARM_LPAE_TCR_TG0_SHIFT)
    \cup ShiftL(BitsOf(d.ps), ARM_LPAE_TCR_PS_SHIFT)
    \cup ShiftL(BitsOf(d.t0sz), ARM_LPAE_TCR_T0SZ_SHIFT)
    \cup ShiftL(BitsOf(d.sl0), ARM_LPAE_TCR_SL0_SHIFT)

\* the result of the 64-bit allocator with the register it hands to the driver
S2WithVtcr(d, sx) == IF d.ok THEN [d EXCEPT !.vtcr = S2Vtcr(d, sx)] ELSE d

\* the 32-bit allocator of stage 2: the configuration it passes on and its result
arm_32_lpae_cfg(c) ==
    IF c.ias > 40 \/ c.oas > 40
    THEN c
    ELSE [c EXCEPT !.pgsize_bitmap = @ \cap {SZ_4K, 512 * SZ_4K, SZ_1G}]

arm_32_lpae_alloc_pgtable_s2(c, pgd, sx) ==
    IF c.ias > 40 \/ c.oas > 40
    THEN NoData
    ELSE LET d == S2WithVtcr(arm_64_lpae_alloc_pgtable_s2(arm_32_lpae_cfg(c), pgd), sx)
         IN IF d.ok THEN [d EXCEPT !.vtcr = @ \cap (0 .. 31)] ELSE d

\* ARM_LPAE_LVL_SHIFT, ARM_LPAE_PGD_IDX and the width in bits of
\* ARM_LPAE_LVL_IDX for the page table d of an allocation
LvlShiftOf(d, l) ==
    ((d.levels - (l - (ARM_LPAE_MAX_LEVELS - d.levels) + 1)) * d.bits_per_level) + d.pg_shift

PgdIdxOf(d, l) ==
    IF l = ARM_LPAE_MAX_LEVELS - d.levels
    THEN ilog2(d.pgd_size \div Pow2(d.pg_shift))
    ELSE 0

LvlIdxBitsOf(d, l) == d.bits_per_level + PgdIdxOf(d, l)

\* ARM_LPAE_LVL_IDX(a, l, d) of the highest input address a = 2^ias - 1,
\* whose shift to the right is taken on the exponents
LvlIdxOfLast(d, ias, l) ==
    (Pow2(ias - LvlShiftOf(d, l)) - 1) % Pow2(LvlIdxBitsOf(d, l))

\* ---------------------------------------------------------------- actions

\* ------------------------------------------------------------- xt_quota2

\* The rules (struct xt_quota_mtinfo2) that iptables checks and destroys, each
\* from its own task: rules 1 and 2 name the same counter, rule 3 another.
Rules == 1 .. 3

RuleName(t) == IF t = 3 THEN "r" ELSE "q"

\* the addresses kmalloc hands out
Addrs == 1 .. 3

\* a NULL struct xt_quota_counter *
NO_COUNTER == 0

\* a piece of memory before kmalloc returned it
NoCounter == [st |-> "none", name |-> "", ref |-> 0, procfs_entry |-> FALSE,
              frees |-> 0, returned |-> FALSE]

\* LIST_HEAD(counter_list), DEFINE_SPINLOCK(counter_list_lock); no rule is
\* loaded.  A rule is at a position of quota_mt2_check or quota_mt2_destroy.
q2_init ==
    /\ counter_list = <<>>
    /\ counter_list_lock = 0
    /\ counters = [a \in Addrs |-> NoCounter]
    /\ rule = [t \in Rules |-> [pc |-> "unloaded", new_e |-> NO_COUNTER, e |-> NO_COUNTER,
                              master |-> NO_COUNTER]]

OnList(a) == \E i \in 1 .. Len(counter_list) : counter_list[i] = a

\* list_del(&e->list)
list_del(l, a) == SelectSeq(l, LAMBDA x : x # a)

\* kfree(p): NULL is ignored; the memory keeps its last contents
kfree(c, a) ==
    IF a = NO_COUNTER THEN c
    ELSE [c EXCEPT ![a].st = "free", ![a].frees = IF @ < 2 THEN @ + 1 ELSE @]

\* the first entry of counter_list with this name, or none
q2_find(name) ==
    LET hits == {i \in 1 .. Len(counter_list) : counters[counter_list[i]].name = name}
    IN IF hits = {} THEN NO_COUNTER
       ELSE counter_list[CHOOSE i \in hits : \A j \in hits : i <= j]

FreshAddrs == {a \in Addrs : counters[a].st = "none"}

\* q2_new_counter(q, false) as called by q2_get_counter from quota_mt2_check:
\* kmalloc fails, or returns a counter with ref 1 that carries the rule's name
q2_new_counter(t) ==
    /\ rule[t].pc = "unloaded"
    /\ counter_list_lock # t
    /\ \/ /\ rule' = [rule EXCEPT ![t].pc = "failed"]
          /\ UNCHANGED counters
       \/ /\ FreshAddrs # {}
          /\ LET a == CHOOSE x \in FreshAddrs : \A y \in FreshAddrs : x <= y
             IN /\ counters' = [counters EXCEPT ![a] = [NoCounter EXCEPT !.st = "alloc",
                                                           !.ref = 1, !.name = RuleName(t)]]
                /\ rule' = [rule EXCEPT ![t].pc = "get_lock", ![t].new_e = a]
    /\ UNCHANGED <<counter_list, counter_list_lock, io_vars, ep0_vars>>

\* spin_lock_bh(&counter_list_lock) of q2_get_counter and of its error path,
\* and of quota_mt2_destroy, which the rule enters here
spin_lock_bh(t) ==
    /\ rule[t].pc \in {"get_lock", "del_lock", "loaded"}
    /\ counter_list_lock = 0
    /\ counter_list_lock' = t
    /\ rule' = [rule EXCEPT ![t].pc = CASE rule[t].pc = "get_lock" -> "get_search"
                                        [] rule[t].pc = "del_lock" -> "get_del"
                                        [] OTHER -> "destroy_dec",
                            ![t].e = IF rule[t].pc = "loaded" THEN rule[t].master ELSE @]
    /\ UNCHANGED <<counter_list, counters, io_vars, ep0_vars>>

\* the locked part of q2_get_counter: take a reference to the counter of this
\* name, or put the new counter on the list
q2_get_counter_search(t) ==
    /\ rule[t].pc = "get_search"
    /\ counter_list_lock = t
    /\ LET e == q2_find(RuleName(t))
       IN IF e # NO_COUNTER
          THEN /\ counters' = [counters EXCEPT ![e].ref = @ + 1]
               /\ rule' = [rule EXCEPT ![t].pc = "get_old", ![t].e = e]
               /\ UNCHANGED counter_list
          ELSE /\ counter_list' = Append(counter_list, rule[t].new_e)
               /\ rule' = [rule EXCEPT ![t].pc = "get_proc", ![t].e = rule[t].new_e]
               /\ UNCHANGED counters
    /\ counter_list_lock' = 0
    /\ UNCHANGED <<io_vars, ep0_vars>>

\* kfree(new_e); return e
q2_get_counter_old(t) ==
    /\ rule[t].pc = "get_old"
    /\ counters' = [kfree(counters, rule[t].new_e) EXCEPT ![rule[t].e].returned = TRUE]
    /\ rule' = [rule EXCEPT ![t].pc = "loaded", ![t].master = rule[t].e]
    /\ UNCHANGED <<counter_list, counter_list_lock, io_vars, ep0_vars>>

\* proc_create_data outside the lock: return e, or go to the error path
q2_get_counter_proc(t) ==
    /\ rule[t].pc = "get_proc"
    /\ \/ /\ counters' = [counters EXCEPT ![rule[t].e].procfs_entry = TRUE,
                                          ![rule[t].e].returned = TRUE]
          /\ rule' = [rule EXCEPT ![t].pc = "loaded", ![t].master = rule[t].e]
       \/ /\ rule' = [rule EXCEPT ![t].pc = "del_lock"]
          /\ UNCHANGED counters
    /\ UNCHANGED <<counter_list, counter_list_lock, io_vars, ep0_vars>>

\* the error path under the lock: list_del(&e->list)
q2_get_counter_del(t) ==
    /\ rule[t].pc = "get_del"
    /\ counter_list_lock = t
    /\ counter_list' = list_del(counter_list, rule[t].e)
    /\ counter_list_lock' = 0
    /\ rule' = [rule EXCEPT ![t].pc = "get_out"]
    /\ UNCHANGED <<counters, io_vars, ep0_vars>>

\* out: kfree(e); return NULL
q2_get_counter_out(t) ==
    /\ rule[t].pc = "get_out"
    /\ counters' = kfree(counters, rule[t].e)
    /\ rule' = [rule EXCEPT ![t].pc = "failed"]
    /\ UNCHANGED <<counter_list, counter_list_lock, io_vars, ep0_vars>>

\* the locked part of quota_mt2_destroy.  atomic_dec_and_test on memory that
\* was freed reads whatever is there: either answer can come back.  list_del
\* of an entry that is on no list either leaves the list alone or stops the
\* task inside the lock.
quota_mt2_destroy_dec(t) ==
    /\ rule[t].pc = "destroy_dec"
    /\ counter_list_lock = t
    /\ LET e == rule[t].e
           Last(c) ==
              /\ counters' = [c EXCEPT ![e].procfs_entry = FALSE]
              /\ \/ /\ counter_list' = list_del(counter_list, e)
                    /\ counter_list_lock' = 0
                    /\ rule' = [rule EXCEPT ![t].pc = "destroy_free"]
                 \/ /\ ~OnList(e)
                    /\ rule' = [rule EXCEPT ![t].pc = "oops"]
                    /\ UNCHANGED <<counter_list, counter_list_lock>>
           NotLast(c) ==
              /\ counters' = c
              /\ counter_list_lock' = 0
              /\ rule' = [rule EXCEPT ![t].pc = "unloaded", ![t].master = NO_COUNTER]
              /\ UNCHANGED counter_list
       IN IF counters[e].st = "free"
          THEN Last(counters) \/ NotLast(counters)
          ELSE LET c == [counters EXCEPT ![e].ref = @ - 1]
               IN IF c[e].ref = 0 THEN Last(c) ELSE NotLast(c)
    /\ UNCHANGED <<io_vars, ep0_vars>>

\* kfree(e) of quota_mt2_destroy
quota_mt2_destroy_free(t) ==
    /\ rule[t].pc = "destroy_free"
    /\ counters' = kfree(counters, rule[t].e)
    /\ rule' = [rule EXCEPT ![t].pc = "unloaded", ![t].master = NO_COUNTER]
    /\ UNCHANGED <<counter_list, counter_list_lock, io_vars, ep0_vars>>

\* -------------------------------------------------------------- dwc3 ep0

\* control transfers of a behaviour, and XferNotReady events of one stage
MaxXfers == 3

MaxNrdy == 2

\* struct dwc3 after the gadget started: dwc3_ep0_out_start armed the SETUP
\* TRB on physical endpoint 0.  flags are dwc->eps[n]->flags, request_list is
\* dwc->eps[0]->request_list, trb the type written to dwc->ep0_trb, and
\* status_trbs counts the status TRBs started since the last SETUP packet.
\* The host is before the SETUP packet and no setup handler runs.
ep0_init ==
    /\ dwc = [ep0state |-> "EP0_SETUP_PHASE", ep0_next_event |-> "DWC3_EP0_COMPLETE",
              delayed_status |-> FALSE, three_stage_setup |-> FALSE,
              ep0_expect_in |-> FALSE, setup_packet_pending |-> FALSE,
              flags |-> [n \in 0 .. 1 |-> IF n = 0 THEN {"DWC3_EP_ENABLED", "DWC3_EP_BUSY"}
                                                    ELSE {"DWC3_EP_ENABLED"}],
              request_list |-> <<>>, trb |-> "DWC3_TRBCTL_CONTROL_SETUP", status_trbs |-> 0]
    /\ host = [stage |-> "setup", nrdy |-> 0]
    /\ gadget = [pc |-> "idle", ret |-> "0", owes |-> FALSE]
    /\ xfer = [n |-> 0, delayed |-> FALSE, queued |-> FALSE, nrdy |-> FALSE, first |-> "none"]

StatusTrbs == {"DWC3_TRBCTL_CONTROL_STATUS2", "DWC3_TRBCTL_CONTROL_STATUS3"}

\* dwc3_ep0_start_trans(dwc, epnum, buf_dma, len, type); the STARTTRANSFER
\* command is accepted by the controller
dwc3_ep0_start_trans(d, epnum, type) ==
    IF "DWC3_EP_BUSY" \in d.flags[epnum]
    THEN d
    ELSE [d EXCEPT !.trb = type,
                   !.flags[epnum] = @ \cup {"DWC3_EP_BUSY"},
                   !.ep0_next_event = "DWC3_EP0_COMPLETE",
                   !.status_trbs = IF type \in StatusTrbs THEN @ + 1 ELSE @]

dwc3_ep0_out_start(d) == dwc3_ep0_start_trans(d, 0, "DWC3_TRBCTL_CONTROL_SETUP")

\* dwc3_gadget_giveback(dep, next_request(&dep->request_list), status)
dwc3_gadget_giveback(d) == [d EXCEPT !.request_list = Tail(@)]

dwc3_ep0_stall_and_restart(d) ==
    LET d1 == [d EXCEPT !.flags = [n \in 0 .. 1 |-> {"DWC3_EP_ENABLED"}],
                        !.delayed_status = FALSE]
        d2 == IF d1.request_list # <<>> THEN dwc3_gadget_giveback(d1) ELSE d1
    IN dwc3_ep0_out_start([d2 EXCEPT !.ep0state = "EP0_SETUP_PHASE"])

dwc3_ep0_start_control_status(d, epnum) ==
    dwc3_ep0_start_trans(d, epnum, IF d.three_stage_setup THEN "DWC3_TRBCTL_CONTROL_STATUS3"
                                                         ELSE "DWC3_TRBCTL_CONTROL_STATUS2")

__dwc3_ep0_do_control_status(d, epnum) == dwc3_ep0_start_control_status(d, epnum)

dwc3_ep0_do_control_status(d, epnum) == __dwc3_ep0_do_control_status(d, epnum)

\* every branch maps the request and starts a CONTROL_DATA TRB on dep
__dwc3_ep0_do_control_data(d, epnum) ==
    dwc3_ep0_start_trans(d, epnum, "DWC3_TRBCTL_CONTROL_DATA")

__dwc3_gadget_ep0_queue(d) ==
    LET d1 == [d EXCEPT !.request_list = Append(@, "req")]
    IN IF "DWC3_EP_PENDING_REQUEST" \in d1.flags[0]
       THEN IF d1.ep0state # "EP0_DATA_PHASE"
            THEN d1
            ELSE LET direction == IF "DWC3_EP0_DIR_IN" \in d1.flags[0] THEN 1 ELSE 0
                 IN [__dwc3_ep0_do_control_data(d1, direction) EXCEPT
                        !.flags[0] = @ \ {"DWC3_EP_PENDING_REQUEST", "DWC3_EP0_DIR_IN"}]
       ELSE IF d1.delayed_status
       THEN LET direction == IF d1.ep0_expect_in THEN 0 ELSE 1
                d2 == [d1 EXCEPT !.delayed_status = FALSE]
            IN IF d2.ep0state = "EP0_STATUS_PHASE"
               THEN __dwc3_ep0_do_control_status(d2, direction)
               ELSE d2
       ELSE IF d1.three_stage_setup
       THEN LET direction == IF d1.ep0_expect_in THEN 1 ELSE 0
            IN [__dwc3_ep0_do_control_data([d1 EXCEPT !.ep0state = "EP0_DATA_PHASE"],
                                           direction) EXCEPT
                   !.flags[0] = @ \ {"DWC3_EP0_DIR_IN"}]
       ELSE d1

\* dwc3_gadget_ep0_queue under dwc->lock: -EBUSY while a request is listed
dwc3_gadget_ep0_queue(d) ==
    IF d.request_list # <<>> THEN d ELSE __dwc3_gadget_ep0_queue(d)

\* dwc3_ep0_xfernotready that holds the status stage back whenever
\* delayed_status is set, without looking at the request list
dwc3_ep0_xfernotready_nolist(d, epnum, status) ==
    LET d1 == [d EXCEPT !.setup_packet_pending = TRUE]
    IN IF status = "DEPEVT_STATUS_CONTROL_DATA"
       THEN IF d1.ep0_next_event = "DWC3_EP0_COMPLETE"
            THEN d1
            ELSE IF d1.ep0_expect_in # (epnum = 1)
            THEN dwc3_ep0_stall_and_restart(d1)
            ELSE d1
       ELSE IF d1.ep0_next_event # "DWC3_EP0_NRDY_STATUS"
       THEN d1
       ELSE LET d2 == [d1 EXCEPT !.ep0state = "EP0_STATUS_PHASE"]
            IN IF d2.delayed_status
               THEN d2
               ELSE dwc3_ep0_do_control_status([d2 EXCEPT !.delayed_status = FALSE], epnum)

dwc3_ep0_xfernotready(d, epnum, status) ==
    LET d1 == [d EXCEPT !.setup_packet_pending = TRUE]
    IN IF status = "DEPEVT_STATUS_CONTROL_DATA"
       THEN IF d1.ep0_next_event = "DWC3_EP0_COMPLETE"
            THEN d1
            ELSE IF d1.ep0_expect_in # (epnum = 1)
            THEN dwc3_ep0_stall_and_restart(d1)
            ELSE d1
       ELSE IF d1.ep0_next_event # "DWC3_EP0_NRDY_STATUS"
       THEN d1
       ELSE LET d2 == [d1 EXCEPT !.ep0state = "EP0_STATUS_PHASE"]
            IN IF d2.delayed_status /\ d2.request_list = <<>>
               THEN d2
               ELSE dwc3_ep0_do_control_status([d2 EXCEPT !.delayed_status = FALSE], epnum)

\* the whole request was transferred and needs no zero-length packet
dwc3_ep0_complete_data(d) ==
    LET d1 == [d EXCEPT !.ep0_next_event = "DWC3_EP0_NRDY_STATUS"]
    IN IF d1.request_list = <<>> THEN d1 ELSE dwc3_gadget_giveback(d1)

dwc3_ep0_complete_status(d) ==
    LET d1 == IF d.request_list # <<>> THEN dwc3_gadget_giveback(d) ELSE d
    IN dwc3_ep0_out_start([d1 EXCEPT !.ep0state = "EP0_SETUP_PHASE"])

\* dwc3_ep0_xfer_complete in the data and status phases
dwc3_ep0_xfer_complete(d, epnum) ==
    LET d1 == [d EXCEPT !.flags[epnum] = @ \ {"DWC3_EP_BUSY"},
                        !.setup_packet_pending = FALSE]
    IN IF d1.ep0state = "EP0_DATA_PHASE"
       THEN dwc3_ep0_complete_data(d1)
       ELSE dwc3_ep0_complete_status(d1)

\* the SETUP TRB is armed on physical endpoint 0
SetupArmed(d) == d.trb = "DWC3_TRBCTL_CONTROL_SETUP" /\ "DWC3_EP_BUSY" \in d.flags[0]

\* the endpoint of the data stage and of the status stage of the transfer
DataEp == IF dwc.ep0_expect_in THEN 1 ELSE 0

StatusEp == IF dwc.three_stage_setup /\ dwc.ep0_expect_in THEN 0 ELSE 1

\* the event handlers run one after the other in the interrupt thread; the
\* thread is inside the setup handler from the call to its return
IrqIdle == gadget.pc = "idle"

\* XferComplete of the SETUP TRB: dwc3_ep0_xfer_complete, dwc3_ep0_inspect_setup
\* up to the call of the setup handler, for which dwc3_ep0_delegate_req drops
\* dwc->lock
XferCompleteSetup ==
    /\ IrqIdle
    /\ host.stage = "setup"
    /\ xfer.n < MaxXfers
    /\ SetupArmed(dwc)
    /\ \E len0 \in BOOLEAN, in \in BOOLEAN :
          /\ dwc' = [dwc EXCEPT !.flags[0] = @ \ {"DWC3_EP_BUSY"},
                                !.setup_packet_pending = FALSE,
                                !.three_stage_setup = ~len0,
                                !.ep0_expect_in = IF len0 THEN FALSE ELSE in,
                                !.ep0_next_event = IF len0 THEN "DWC3_EP0_NRDY_STATUS"
                                                           ELSE "DWC3_EP0_NRDY_DATA",
                                !.status_trbs = 0]
          /\ host' = [stage |-> IF len0 THEN "status" ELSE "data", nrdy |-> 0]
    /\ gadget' = [gadget EXCEPT !.pc = "setup"]
    /\ xfer' = [n |-> xfer.n + 1, delayed |-> FALSE, queued |-> FALSE, nrdy |-> FALSE,
                first |-> "none"]
    /\ UNCHANGED <<io_vars, q2_vars>>

\* what the transfer has seen once the gadget driver queued a request
Queued(x) ==
    [x EXCEPT !.queued = TRUE, !.first = IF @ = "none" THEN "queue" ELSE @]

\* dwc->gadget_driver->setup(): the handler queues its request and returns 0,
\* leaves the request to a worker, returns 0 for a request without data that
\* needs none, asks for a delayed status of a request without data, or fails
GadgetSetup ==
    /\ gadget.pc = "setup"
    /\ \/ /\ dwc.request_list = <<>>
          /\ dwc' = dwc3_gadget_ep0_queue(dwc)
          /\ gadget' = [gadget EXCEPT !.pc = "return", !.ret = "0"]
          /\ xfer' = Queued(xfer)
       \/ /\ dwc.three_stage_setup
          /\ gadget' = [gadget EXCEPT !.pc = "return", !.ret = "0", !.owes = TRUE]
          /\ UNCHANGED <<dwc, xfer>>
       \/ /\ ~dwc.three_stage_setup
          /\ gadget' = [gadget EXCEPT !.pc = "return", !.ret = "0"]
          /\ UNCHANGED <<dwc, xfer>>
       \/ /\ ~dwc.three_stage_setup
          /\ gadget' = [gadget EXCEPT !.pc = "return", !.ret = "USB_GADGET_DELAYED_STATUS",
                                      !.owes = TRUE]
          /\ xfer' = [xfer EXCEPT !.delayed = TRUE]
          /\ UNCHANGED dwc
       \/ /\ gadget' = [gadget EXCEPT !.pc = "return", !.ret = "-EINVAL"]
          /\ UNCHANGED <<dwc, xfer>>
    /\ UNCHANGED <<host, io_vars, q2_vars>>

\* dwc3_ep0_inspect_setup after the setup handler returned and dwc->lock was
\* taken again; the host sees the STALL and goes on to its next SETUP packet
dwc3_ep0_inspect_setup ==
    /\ gadget.pc = "return"
    /\ dwc' = IF gadget.ret = "USB_GADGET_DELAYED_STATUS"
              THEN [dwc EXCEPT !.delayed_status = TRUE]
              ELSE IF gadget.ret = "-EINVAL"
              THEN dwc3_ep0_stall_and_restart(dwc)
              ELSE dwc
    /\ host' = IF gadget.ret = "-EINVAL" THEN [host EXCEPT !.stage = "setup"] ELSE host
    /\ gadget' = [gadget EXCEPT !.pc = "idle"]
    /\ UNCHANGED <<xfer, io_vars, q2_vars>>

\* usb_ep_queue on ep0 from the gadget driver's worker, at any time after the
\* setup handler left the request to it
GadgetQueue ==
    /\ gadget.owes
    /\ dwc.request_list = <<>>
    /\ dwc' = dwc3_gadget_ep0_queue(dwc)
    /\ gadget' = [gadget EXCEPT !.owes = FALSE]
    /\ xfer' = Queued(xfer)
    /\ UNCHANGED <<host, io_vars, q2_vars>>

\* XferNotReady(STATUS): the host is in the status stage
XferNotReadyStatus ==
    /\ IrqIdle
    /\ host.stage = "status"
    /\ host.nrdy < MaxNrdy
    /\ dwc' = dwc3_ep0_xfernotready(dwc, StatusEp, "DEPEVT_STATUS_CONTROL_STATUS")
    /\ host' = [host EXCEPT !.nrdy = @ + 1]
    /\ xfer' = [xfer EXCEPT !.nrdy = TRUE, !.first = IF @ = "none" THEN "nrdy" ELSE @]
    /\ UNCHANGED <<gadget, io_vars, q2_vars>>

\* XferNotReady(DATA) on either endpoint: the host is in the data stage.  A
\* transfer that is stalled for the wrong direction is over for the host, and
\* the worker of the gadget driver drops the request it was left with.
XferNotReadyData ==
    /\ IrqIdle
    /\ host.stage = "data"
    /\ host.nrdy < MaxNrdy
    /\ \E epnum \in 0 .. 1 :
          LET d == dwc3_ep0_xfernotready(dwc, epnum, "DEPEVT_STATUS_CONTROL_DATA")
          IN /\ dwc' = d
             /\ host' = IF SetupArmed(d)
                        THEN [stage |-> "setup", nrdy |-> 0]
                        ELSE [host EXCEPT !.nrdy = @ + 1]
    /\ gadget' = IF host'.stage = "setup" THEN [gadget EXCEPT !.owes = FALSE] ELSE gadget
    /\ UNCHANGED <<xfer, io_vars, q2_vars>>

\* XferComplete of the CONTROL_DATA TRB
XferCompleteData ==
    /\ IrqIdle
    /\ host.stage = "data"
    /\ dwc.ep0state = "EP0_DATA_PHASE"
    /\ "DWC3_EP_BUSY" \in dwc.flags[DataEp]
    /\ dwc' = dwc3_ep0_xfer_complete(dwc, DataEp)
    /\ host' = [stage |-> "status", nrdy |-> 0]
    /\ UNCHANGED <<gadget, xfer, io_vars, q2_vars>>

\* XferComplete of the CONTROL_STATUS TRB
XferCompleteStatus ==
    /\ IrqIdle
    /\ host.stage = "status"
    /\ dwc.trb \in StatusTrbs
    /\ "DWC3_EP_BUSY" \in dwc.flags[StatusEp]
    /\ dwc' = dwc3_ep0_xfer_complete(dwc, StatusEp)
    /\ host' = [stage |-> "setup", nrdy |-> 0]
    /\ UNCHANGED <<gadget, xfer, io_vars, q2_vars>>

\* what a call that ran into BUG_ON reports: it never returns
HALTED == 0 - 1000

CfgSet ==
    {[fmt |-> "ARM_64_LPAE_S1", quirks |-> {}, pgsize_bitmap |-> cfg_pgsize_bitmap],
     [fmt |-> "ARM_64_LPAE_S2", quirks |-> {"ARM_NS"}, pgsize_bitmap |-> cfg_pgsize_bitmap]}

ProtRW == {"READ", "WRITE", "NOEXEC", "CACHE"}
ProtR == {"READ"}

\* the requests of the callers: (iova, size) pairs at the three levels
MapPlaces ==
    {<<0, 32>>, <<32, 32>>, <<64, 32>>, <<0, 128>>, <<128, 128>>, <<0, 512>>,
     <<512, 32>>, <<512, 128>>, <<512, 512>>}

MapReqs ==
    {[iova |-> m[1], size |-> m[2], paddr |-> m[1] + 1024, prot |-> ProtR] : m \in MapPlaces}
    \cup
    {[iova |-> m[1], size |-> m[2], paddr |-> m[1], prot |-> ProtRW] :
        m \in {<<0, 32>>, <<0, 128>>}}

UnmapReqs ==
    {<<0, 32>>, <<32, 32>>, <<64, 32>>, <<0, 64>>, <<32, 64>>, <<0, 128>>, <<128, 128>>,
     <<0, 160>>, <<0, 512>>, <<512, 32>>, <<544, 32>>, <<512, 128>>, <<512, 512>>}

\* content of the memory a walk reads when it leaves the tables, per level
Oracles == [2 .. 3 -> {"zero", "valid", "invalid"}]

\* scatter-gather requests: chunks are (page address, offset, length)
Chunk(p, o, n) == [page |-> p, offset |-> o, length |-> n]

SgReqs ==
    {[iova |-> 0, sg |-> <<Chunk(1024, 0, 32)>>, prot |-> ProtRW],
     [iova |-> 0, sg |-> <<Chunk(1024, 0, 32)>>, prot |-> {"NOEXEC"}],
     [iova |-> 32, sg |-> <<Chunk(1024, 0, 32), Chunk(1024, 0, 32)>>, prot |-> ProtRW],
     [iova |-> 96, sg |-> <<Chunk(1024, 0, 32), Chunk(1056, 0, 32)>>, prot |-> ProtR],
     [iova |-> 0, sg |-> <<Chunk(1024, 0, 160)>>, prot |-> ProtRW],
     [iova |-> 0, sg |-> <<Chunk(1024, 32, 64)>>, prot |-> ProtR],
     [iova |-> 0, sg |-> <<Chunk(1024, 16, 32)>>, prot |-> ProtRW],
     [iova |-> 32, sg |-> <<Chunk(1024, 0, 32), Chunk(1024, 16, 32)>>, prot |-> ProtRW]}

SgMapReqs ==
    {[iova |-> m[1], size |-> m[2], paddr |-> m[1] + 2048, prot |-> ProtR] :
        m \in {<<0, 32>>, <<64, 32>>, <<0, 128>>}}

SgUnmapReqs ==
    {<<0, 32>>, <<32, 32>>, <<64, 32>>, <<96, 64>>, <<0, 128>>, <<0, 160>>}

NoLast ==
    [op |-> "none", iova |-> 0, paddr |-> 0, size |-> 0, prot |-> {}, ret |-> 0,
     rem |-> 0, log |-> <<>>, exact |-> FALSE, re |-> FALSE, sg |-> <<>>, why |-> "",
     data |-> NoData, bitmap |-> {}]

Init ==
    /\ cfg \in CfgSet
    /\ pt = [t \in 0 .. MaxTables |-> ZeroTable(t)]
    /\ live = {}
    /\ wild = FALSE
    /\ dfree = FALSE
    /\ bug = FALSE
    /\ last = NoLast
    /\ old = [pt |-> pt, live |-> live]
    /\ nops = 0
    /\ cur = {}
    /\ strict = TRUE
    /\ q2_init
    /\ ep0_init

\* the state after a call that returned r
Commit(r, l) ==
    /\ pt' = IF r.h.bug THEN pt ELSE r.h.pt
    /\ live' = IF r.h.bug THEN live ELSE r.h.live
    /\ wild' = IF r.h.bug THEN wild ELSE r.h.wild
    /\ dfree' = IF r.h.bug THEN dfree ELSE r.h.dfree
    /\ bug' = r.h.bug
    /\ last' = [l EXCEPT !.ret = IF r.h.bug THEN HALTED ELSE r.ret,
                         !.log = IF r.h.bug THEN <<>> ELSE r.h.log]
    /\ old' = [pt |-> pt, live |-> live]
    /\ nops' = nops + 1
    /\ UNCHANGED <<cfg, q2_vars, ep0_vars>>

\* the inputs a call takes from its environment
Env0(budgets) ==
    [budget |-> SetMax(budgets), oracle |-> [l \in 2 .. 3 |-> "zero"], suppress |-> TRUE]

\* the environments that can make a difference to a call that read `asked`
\* under Env0: a walk that stays in the tables reads no foreign memory, and
\* failing allocations only cut the call short
Envs(budgets, asked) ==
    IF "oracle" \in asked
    THEN [budget : budgets, oracle : Oracles, suppress : BOOLEAN]
    ELSE [budget : IF "budget" \in asked THEN budgets ELSE {SetMax(budgets)},
          oracle : {[l \in 2 .. 3 |-> "zero"]},
          suppress : IF "suppress" \in asked THEN BOOLEAN ELSE {TRUE}]

HeapOf(e) == Heap(cfg, pt, live, wild, dfree, e.budget, e.oracle, e.suppress)

\* Do(r) for the result r of Call under every environment
ForEnvs(budgets, Call(_), Do(_)) ==
    LET K(r) ==
           IF Envs(budgets, r.h.asked) = {Env0(budgets)}
           THEN Do(r)
           ELSE \E e \in Envs(budgets, r.h.asked) : Do(Call(e))
    IN Then(Call(Env0(budgets)), K)

\* a call can be made: no call has halted and the page table is not freed
Callable == ~bug /\ nops < MaxOps /\ last.op # "free"

\* [a, a + n) and [b, b + m) share an address
Overlap(a, n, b, m) == a < b + m /\ b < a + n

\* ops->map(ops, iova, paddr, size, prot), with budget allocations succeeding
Map(reqs, budgets) ==
    /\ Callable
    /\ \E q \in reqs :
         LET Call(e) == arm_lpae_map(HeapOf(e), q.iova, q.paddr, q.size, q.prot)
             Do(r) ==
                /\ Commit(r, [NoLast EXCEPT !.op = "map", !.iova = q.iova,
                                            !.paddr = q.paddr, !.size = q.size,
                                            !.prot = q.prot,
                                            !.re = /\ last.op = "unmap"
                                                   /\ last.exact
                                                   /\ last.iova = q.iova
                                                   /\ last.size = q.size
                                                   /\ last.ret = q.size])
                /\ cur' = IF r.ret = 0 /\ ~r.h.bug
                          THEN cur \cup {<<q.iova, q.size>>} ELSE cur
                /\ strict' = (strict /\ r.ret = 0 /\ ~r.h.bug)
         IN ForEnvs(budgets, Call, Do)

\* ops->map_sg(ops, iova, sg, nents, prot, &size)
MapSg(reqs, budgets) ==
    /\ Callable
    /\ \E q \in reqs :
         LET Call(e) == arm_lpae_map_sg(HeapOf(e), q.iova, q.sg, q.prot)
             Do(r) ==
                LET n == IF r.why = "ok" THEN r.ret ELSE r.size IN
                /\ Commit(r, [NoLast EXCEPT !.op = "map_sg", !.iova = q.iova,
                                            !.sg = q.sg, !.prot = q.prot,
                                            !.rem = IF r.h.bug THEN NOT_SET ELSE r.size,
                                            !.why = r.why])
                /\ cur' = IF n > 0 /\ ~r.h.bug THEN cur \cup {<<q.iova, n>>} ELSE cur
                /\ strict' = (strict /\ r.why = "ok" /\ ~r.h.bug)
         IN ForEnvs(budgets, Call, Do)

\* ops->unmap(ops, iova, size), with budget allocations succeeding
Unmap(reqs, budgets) ==
    /\ Callable
    /\ \E q \in reqs :
         LET Call(e) == arm_lpae_unmap(HeapOf(e), q[1], q[2])
             Do(r) ==
                /\ Commit(r, [NoLast EXCEPT !.op = "unmap", !.iova = q[1], !.size = q[2],
                                            !.exact = q \in cur])
                /\ cur' = IF q \in cur
                          THEN cur \ {q}
                          ELSE {m \in cur : ~Overlap(q[1], q[2], m[1], m[2])}
                /\ strict' = (strict /\ q \in cur)
         IN ForEnvs(budgets, Call, Do)

\* ops->iova_to_phys(ops, iova)
IovaToPhys ==
    /\ Callable
    /\ \E a \in {10} :
         last' = [NoLast EXCEPT !.op = "iova_to_phys", !.iova = a,
                                !.ret = arm_lpae_iova_to_phys(pt, a)]
    /\ old' = [pt |-> pt, live |-> live]
    /\ nops' = nops + 1
    /\ UNCHANGED <<cfg, pt, live, wild, dfree, bug, cur, strict, q2_vars, ep0_vars>>

\* single mappings and unmappings; the allocator never fails
Next ==
    \/ Map(MapReqs, {NoFail})
    \/ Unmap(UnmapReqs, {NoFail})
    \/ IovaToPhys

Spec == Init /\ [][Next]_vars

\* scatter-gather mappings among single ones; the allocator may run dry
SgBudgets == {0, 1, NoFail}

NextSG ==
    \/ MapSg(SgReqs, SgBudgets)
    \/ Map(SgMapReqs, {NoFail})
    \/ Unmap(SgUnmapReqs, {NoFail})

SpecSG == Init /\ [][NextSG]_vars

\* .free of io_pgtable_init_fns: the last call on a page table
Free ==
    /\ Callable
    /\ Commit(arm_lpae_free_pgtable(HeapOf(Env0({NoFail}))), [NoLast EXCEPT !.op = "free"])
    /\ cur' = {}
    /\ UNCHANGED strict

\* requests of the error paths: a size that is no block size, a prot without
\* access, allocations that fail, and a block followed by a page
EhMapReqs ==
    {[iova |-> m[1], size |-> m[2], paddr |-> m[1] + 1024, prot |-> ProtR] :
        m \in {<<0, 32>>, <<32, 32>>, <<128, 32>>, <<0, 128>>, <<0, 512>>, <<0, 64>>}}
    \cup
    {[iova |-> 0, size |-> 32, paddr |-> 1024, prot |-> {"NOEXEC"}]}

EhSgReqs ==
    {[iova |-> 0, sg |-> <<Chunk(1024, 0, 32)>>, prot |-> {"NOEXEC"}],
     [iova |-> 0, sg |-> <<Chunk(1024, 0, 32), Chunk(2048, 0, 32)>>, prot |-> ProtR]}

EhUnmapReqs == {<<0, 32>>, <<32, 32>>, <<128, 32>>, <<0, 128>>, <<0, 160>>, <<0, 512>>}

EhBudgets == {0, 1, NoFail}

\* calls on every path, the failing ones included, until the table is freed
NextEH ==
    \/ Map(EhMapReqs, EhBudgets)
    \/ MapSg(EhSgReqs, {NoFail})
    \/ Unmap(EhUnmapReqs, {0, NoFail})
    \/ Free

SpecEH == Init /\ [][NextEH]_vars

\* the configurations handed to the allocator of stage 2
AllocBitmaps ==
    {{SZ_4K, 512 * SZ_4K, SZ_1G}, {SZ_16K, SZ_32M}, {SZ_64K, SZ_512M},
     {SZ_4K, SZ_64K, 512 * SZ_4K, SZ_512M, SZ_1G}, {SZ_1G}}

AllocCfgs ==
    [fmt : {"ARM_64_LPAE_S2"}, quirks : {{}}, pgsize_bitmap : AllocBitmaps,
     ias : 32 .. 49, oas : {40, 41, 48}]

InitAlloc ==
    /\ cfg \in AllocCfgs
    /\ pt = [t \in 0 .. MaxTables |-> ZeroTable(t)]
    /\ live = {}
    /\ wild = FALSE
    /\ dfree = FALSE
    /\ bug = FALSE
    /\ last = NoLast
    /\ old = [pt |-> pt, live |-> live]
    /\ nops = 0
    /\ cur = {}
    /\ strict = TRUE
    /\ q2_init
    /\ ep0_init

\* .alloc of io_pgtable_arm_64_lpae_s2_init_fns; arm_lpae_restrict_pgsizes
\* writes the restricted page sizes into the caller's cfg, and last.bitmap
\* keeps the ones the caller asked for
AllocS2 ==
    /\ last.op = "none"
    /\ \E pgd \in BOOLEAN, sx \in BOOLEAN :
          last' = [NoLast EXCEPT !.op = "alloc_s2",
                                 !.data = S2WithVtcr(arm_64_lpae_alloc_pgtable_s2(cfg, pgd), sx),
                                 !.bitmap = cfg.pgsize_bitmap]
    /\ cfg' = [cfg EXCEPT !.pgsize_bitmap = arm_lpae_restrict_pgsizes(@)]
    /\ UNCHANGED <<pt, live, wild, dfree, bug, old, nops, cur, strict, q2_vars, ep0_vars>>

\* .alloc of io_pgtable_arm_32_lpae_s2_init_fns
Alloc32S2 ==
    /\ last.op = "none"
    /\ \E pgd \in BOOLEAN, sx \in BOOLEAN :
          last' = [NoLast EXCEPT !.op = "alloc32_s2",
                                 !.data = arm_32_lpae_alloc_pgtable_s2(cfg, pgd, sx),
                                 !.bitmap = cfg.pgsize_bitmap]
    /\ cfg' = IF cfg.ias > 40 \/ cfg.oas > 40
              THEN cfg
              ELSE [cfg EXCEPT !.pgsize_bitmap =
                                   arm_lpae_restrict_pgsizes(arm_32_lpae_cfg(cfg).pgsize_bitmap)]
    /\ UNCHANGED <<pt, live, wild, dfree, bug, old, nops, cur, strict, q2_vars, ep0_vars>>

NextAlloc == AllocS2

SpecAlloc == InitAlloc /\ [][NextAlloc]_vars

\* page sizes a caller may list: sizes below the CPU page size, several
\* granules at once, blocks without their granule, and nothing
RestrictBitmaps ==
    AllocBitmaps
    \cup {{1024, SZ_4K}, {2048, SZ_16K, SZ_32M}, {SZ_16K, SZ_64K, SZ_32M, SZ_512M},
          {SZ_64K, SZ_512M, SZ_1G}, {512 * SZ_4K, SZ_1G}, {}}

\* address sizes from a table of one level up to beyond the 48 bits of the format
RestrictCfgs ==
    [fmt : {"ARM_64_LPAE_S2"}, quirks : {{}}, pgsize_bitmap : RestrictBitmaps,
     ias : {25, 30, 32, 40, 48, 49}, oas : {40, 49}]

InitRestrict ==
    /\ cfg \in RestrictCfgs
    /\ pt = [t \in 0 .. MaxTables |-> ZeroTable(t)]
    /\ live = {}
    /\ wild = FALSE
    /\ dfree = FALSE
    /\ bug = FALSE
    /\ last = NoLast
    /\ old = [pt |-> pt, live |-> live]
    /\ nops = 0
    /\ cur = {}
    /\ strict = TRUE
    /\ q2_init
    /\ ep0_init

SpecRestrict == InitRestrict /\ [][NextAlloc]_vars

\* the attribute slots that arm_64_lpae_alloc_pgtable_s1 programs in MAIR0
MairSlots ==
    {ARM_LPAE_MAIR_ATTR_IDX_NC, ARM_LPAE_MAIR_ATTR_IDX_CACHE, ARM_LPAE_MAIR_ATTR_IDX_DEV}

\* the memory types a caller can ask for, alone and together
AttrProts ==
    {{"READ"}, {"READ", "CACHE"}, {"READ", "DEVICE"}, {"READ", "WRITE", "CACHE", "DEVICE"},
     {"WRITE", "DEVICE", "NOEXEC"}}

AttrMapReqs ==
    [iova : {0, 32}, size : {32}, paddr : {1024}, prot : AttrProts]
    \cup [iova : {128}, size : {128}, paddr : {2048}, prot : AttrProts]

AttrUnmapReqs == {<<0, 32>>, <<128, 128>>}

\* both formats without quirks, and both with the quirk of the secure world
AttrCfgSet ==
    [fmt : {"ARM_64_LPAE_S1", "ARM_64_LPAE_S2"}, quirks : {{}, {"ARM_NS"}},
     pgsize_bitmap : {cfg_pgsize_bitmap}]

InitAttr ==
    /\ cfg \in AttrCfgSet
    /\ pt = [t \in 0 .. MaxTables |-> ZeroTable(t)]
    /\ live = {}
    /\ wild = FALSE
    /\ dfree = FALSE
    /\ bug = FALSE
    /\ last = NoLast
    /\ old = [pt |-> pt, live |-> live]
    /\ nops = 0
    /\ cur = {}
    /\ strict = TRUE
    /\ q2_init
    /\ ep0_init

NextAttr == Map(AttrMapReqs, {NoFail}) \/ Unmap(AttrUnmapReqs, {NoFail})

SpecAttr == InitAttr /\ [][NextAttr]_vars

\* the two allocators of stage 2 on the same configurations
NextVtcr == AllocS2 \/ Alloc32S2

SpecVtcr == InitAlloc /\ [][NextVtcr]_vars

\* physical addresses a caller can pass: aligned to the block, aligned to
\* the granule only, unaligned, and at or beyond 2^oas and 2^48 (scaled)
PaSet == {1024, 1056, 1040, 2048, 5120}

PaMapReqs ==
    [iova : {0}, size : {32, 128}, paddr : PaSet, prot : {ProtR}]
    \cup [iova : {32}, size : {32}, paddr : {1024, 3072}, prot : {ProtRW}]

PaSgReqs ==
    {[iova |-> 0, sg |-> <<Chunk(p, 0, 64)>>, prot |-> ProtR] : p \in {1024, 2048, 5120}}

PaUnmapReqs == {<<0, 32>>, <<32, 32>>, <<64, 64>>, <<0, 128>>}

\* mappings of every physical address, and the splits of their blocks
NextPA ==
    \/ Map(PaMapReqs, {NoFail})
    \/ MapSg(PaSgReqs, {NoFail})
    \/ Unmap(PaUnmapReqs, {NoFail})

SpecPA == Init /\ [][NextPA]_vars

\* scatter-gather lists that make batches: pages of one table, pages of two
\* tables, a block after pages and pages after a block
BatchSgReqs ==
    {[iova |-> 32, sg |-> <<Chunk(1024, 0, 64)>>, prot |-> ProtR],
     [iova |-> 96, sg |-> <<Chunk(1024, 0, 32), Chunk(2048, 0, 128)>>, prot |-> ProtRW],
     [iova |-> 64, sg |-> <<Chunk(1024, 0, 128)>>, prot |-> ProtR],
     [iova |-> 0, sg |-> <<Chunk(1024, 0, 160)>>, prot |-> ProtR],
     [iova |-> 0, sg |-> <<Chunk(1024, 0, 32), Chunk(3072, 0, 32), Chunk(1024, 0, 32)>>,
      prot |-> ProtRW]}

BatchUnmapReqs == {<<32, 32>>, <<0, 128>>, <<128, 128>>}

NextBatch ==
    \/ MapSg(BatchSgReqs, {NoFail})
    \/ Unmap(BatchUnmapReqs, {NoFail})

SpecBatch == Init /\ [][NextBatch]_vars

\* configurations for the block split: the whole bitmap, and a bitmap of the
\* same granule that lacks the 2M block (scaled: 4K | 1G)
SplitCfgSet ==
    {[fmt |-> "ARM_64_LPAE_S2", quirks |-> {"ARM_NS"}, pgsize_bitmap |-> cfg_pgsize_bitmap],
     [fmt |-> "ARM_64_LPAE_S1", quirks |-> {}, pgsize_bitmap |-> {32, 512}]}

InitSplit ==
    /\ cfg \in SplitCfgSet
    /\ pt = [t \in 0 .. MaxTables |-> ZeroTable(t)]
    /\ live = {}
    /\ wild = FALSE
    /\ dfree = FALSE
    /\ bug = FALSE
    /\ last = NoLast
    /\ old = [pt |-> pt, live |-> live]
    /\ nops = 0
    /\ cur = {}
    /\ strict = TRUE
    /\ q2_init
    /\ ep0_init

SplitMapReqs ==
    {[iova |-> m[1], size |-> m[2], paddr |-> m[1] + 1024, prot |-> ProtRW] :
        m \in {<<0, 512>>, <<0, 128>>, <<128, 32>>, <<512, 32>>}}

SplitUnmapReqs == {<<0, 32>>, <<32, 32>>, <<128, 128>>, <<256, 64>>, <<0, 512>>}

SplitBudgets == {0, 1, NoFail}

\* blocks, and unmaps that split them while the allocator may run dry
NextSplit ==
    \/ Map(SplitMapReqs, {NoFail})
    \/ Unmap(SplitUnmapReqs, SplitBudgets)

SpecSplit == InitSplit /\ [][NextSplit]_vars

\* the rules of xt_quota2 checked and destroyed from concurrent tasks; no page
\* table is in use
InitQuota ==
    /\ cfg = [fmt |-> "ARM_64_LPAE_S1", quirks |-> {}, pgsize_bitmap |-> cfg_pgsize_bitmap]
    /\ pt = [t \in 0 .. MaxTables |-> ZeroTable(t)]
    /\ live = {}
    /\ wild = FALSE
    /\ dfree = FALSE
    /\ bug = FALSE
    /\ last = NoLast
    /\ old = [pt |-> pt, live |-> live]
    /\ nops = 0
    /\ cur = {}
    /\ strict = TRUE
    /\ q2_init
    /\ ep0_init

NextQuota ==
    \E t \in Rules :
       \/ q2_new_counter(t)
       \/ spin_lock_bh(t)
       \/ q2_get_counter_search(t)
       \/ q2_get_counter_old(t)
       \/ q2_get_counter_proc(t)
       \/ q2_get_counter_del(t)
       \/ q2_get_counter_out(t)
       \/ quota_mt2_destroy_dec(t)
       \/ quota_mt2_destroy_free(t)

SpecQuota == InitQuota /\ [][NextQuota]_vars

\* control transfers on ep0 of dwc3: the events of the controller and the
\* calls of the gadget driver; no page table is in use
InitEp0 == InitQuota

NextEp0 ==
    \/ XferCompleteSetup
    \/ GadgetSetup
    \/ dwc3_ep0_inspect_setup
    \/ GadgetQueue
    \/ XferNotReadyStatus
    \/ XferNotReadyData
    \/ XferCompleteData
    \/ XferCompleteStatus

SpecEp0 == InitEp0 /\ [][NextEp0]_vars

\* ------------------------------------------------------------- properties

\* translation of address a by the tables now and before the last call
Phys(a) == arm_lpae_iova_to_phys(pt, a)
OldPhys(a) == arm_lpae_iova_to_phys(old.pt, a)

\* first, inner and last byte of every granule of [iova, iova + size)
RangeAddrs(iova, size) ==
    {iova + (g * Granule) + o : g \in 0 .. ((size \div Granule) - 1), o \in {0, 7, Granule - 1}}

AllAddrs == RangeAddrs(0, IovaSpace)

InRange(a, iova, size) == iova <= a /\ a < iova + size

HasAccess(prot) == prot \cap {"READ", "WRITE"} # {}

RECURSIVE Covered(_, _, _, _, _)
\* the walk of the tables p towards the slot of (iova, size) meets a valid
\* descriptor: a leaf above the level of size, or a leaf or table at it
Covered(p, iova, size, lvl, t) ==
    LET pte == p[t][ARM_LPAE_LVL_IDX(iova, lvl)] IN
    IF size = ARM_LPAE_BLOCK_SIZE(lvl)
    THEN PteValid(pte)
    ELSE IF lvl >= ARM_LPAE_MAX_LEVELS - 1 \/ pte = ZeroPte
    THEN FALSE
    ELSE IF iopte_leaf(pte, lvl)
    THEN TRUE
    ELSE Covered(p, iova, size, lvl + 1, iopte_deref(pte))

RECURSIVE LeafLevel(_, _, _, _)
\* the level of the leaf of the tables p that translates iova, 0 without one
LeafLevel(p, iova, lvl, t) ==
    LET pte == p[t][ARM_LPAE_LVL_IDX(iova, lvl)] IN
    IF pte = ZeroPte
    THEN 0
    ELSE IF iopte_leaf(pte, lvl)
    THEN lvl
    ELSE IF lvl + 1 < ARM_LPAE_MAX_LEVELS
    THEN LeafLevel(p, iova, lvl + 1, iopte_deref(pte))
    ELSE 0

\* C1: after a successful map(iova, pa, s, prot) with READ or WRITE in prot
\* and s a supported size, iova_to_phys(iova + k) is pa + k for 0 <= k < s
C1_MapTranslates ==
    (last.op = "map" /\ last.ret = 0 /\ HasAccess(last.prot)
        /\ last.size \in cfg_pgsize_bitmap)
    => \A a \in RangeAddrs(last.iova, last.size) :
          Phys(a) = last.paddr + (a - last.iova)

\* C2: a map over a range that meets a valid descriptor (a leaf of the same
\* size, a table, or a larger block leaf covering it) returns -EEXIST and
\* leaves the tables as they were
C2_OverlapRejected ==
    (last.op = "map" /\ HasAccess(last.prot)
        /\ Covered(old.pt, last.iova, last.size, ARM_LPAE_START_LVL, 0))
    => (last.ret = 0 - EEXIST /\ pt = old.pt /\ live = old.live)

\* C3: unmap(iova, s) of a mapping that map(iova, pa, s, prot) created returns
\* s and leaves no address of [iova, iova + s) translated, and a map of the
\* same range that follows succeeds and translates to its own pa
C3_RoundTrip ==
    /\ (last.op = "unmap" /\ last.exact)
       => (last.ret = last.size
           /\ \A a \in RangeAddrs(last.iova, last.size) : Phys(a) = 0)
    /\ (last.op = "map" /\ last.re /\ HasAccess(last.prot))
       => (last.ret = 0
           /\ \A a \in RangeAddrs(last.iova, last.size) :
                 Phys(a) = last.paddr + (a - last.iova))

\* some mapping the callers still hold covers address a
Held(a) == \E m \in cur : InRange(a, m[1], m[2])

\* C4: iova_to_phys returns 0 for every address no mapping covers: on the
\* fresh tables, and when every map succeeded and every unmap took back one
\* mapping with its own iova and size
C4_UnmappedIsZero ==
    strict => \A a \in AllAddrs : ~Held(a) => Phys(a) = 0

\* a page was unmapped from beside a page that stays, and nothing is held
\* any more at the end
C4_Witness ==
    /\ strict /\ last.op = "unmap" /\ last.ret = last.size
    /\ OldPhys(last.iova) # 0 /\ Phys(last.iova) = 0
    /\ \E a \in AllAddrs : Held(a) /\ Phys(a) # 0
    /\ \E a \in AllAddrs : ~Held(a) /\ OldPhys(a) # 0

\* C5: unmap of a sub-range inside a larger block leaf either returns the
\* size of the sub-range, takes exactly the sub-range away and leaves the
\* rest of the block translated as before, or returns 0 and leaves the whole
\* block translated as before
C5_SubRangeUnmap ==
    LET l == LeafLevel(old.pt, last.iova, ARM_LPAE_START_LVL, 0)
        bs == ARM_LPAE_BLOCK_SIZE(l)
        b0 == round_down(last.iova, bs)
    IN (last.op = "unmap" /\ l # 0 /\ last.size < bs
           /\ last.iova + last.size <= b0 + bs)
       => \/ /\ last.ret = last.size
             /\ \A a \in RangeAddrs(b0, bs) :
                   Phys(a) = IF InRange(a, last.iova, last.size) THEN 0 ELSE OldPhys(a)
          \/ /\ last.ret = 0
             /\ \A a \in RangeAddrs(b0, bs) : Phys(a) = OldPhys(a)

RECURSIVE TablesAt(_, _)
\* the tables of level lvl that the root of the tables p leads to
TablesAt(p, lvl) ==
    IF lvl = ARM_LPAE_START_LVL
    THEN {0}
    ELSE {iopte_deref(p[t][i]) :
            <<t, i>> \in {s \in TablesAt(p, lvl - 1) \X (0 .. (PtesPerTable - 1)) :
                            /\ s[2] \in DOMAIN p[s[1]]
                            /\ p[s[1]][s[2]] # ZeroPte
                            /\ ~iopte_leaf(p[s[1]][s[2]], lvl - 1)}}

\* number of entries of table t that are not zero
NonZero(p, t) == Cardinality({j \in DOMAIN p[t] : p[t][j] # ZeroPte})

\* C6: the counter of every table descriptor of the penultimate level is the
\* number of non-zero entries of the last-level table it points to, after
\* every map and unmap, partly mapped ranges and block splits included
C6_CounterMatches ==
    \A t \in TablesAt(pt, ARM_LPAE_MAX_LEVELS - 2) :
       \A i \in DOMAIN pt[t] :
          (pt[t][i] # ZeroPte /\ ~iopte_leaf(pt[t][i], ARM_LPAE_MAX_LEVELS - 2))
          => iopte_tblcnt(pt[t][i]) = NonZero(pt, iopte_deref(pt[t][i]))

\* every mapping was made by a successful map and has been taken back by an
\* unmap with its own iova and size, the last call being such an unmap
AllUnmapped == strict /\ cur = {} /\ last.op = "unmap" /\ last.ret = last.size

\* C7 (as stated): once the whole mapped domain is unmapped only the root
\* table is left, allocated or linked, and all its entries are zero
C7_OnlyRootRemains ==
    AllUnmapped => (live = {} /\ \A i \in DOMAIN pt[0] : pt[0][i] = ZeroPte)

\* C7 (amended): once the whole mapped domain is unmapped no address is
\* translated and no last-level table is linked any more; the tables of the
\* levels above that the maps created may stay linked, holding only zero
\* entries and table descriptors
C7_NoLeafNoLastLevelTable ==
    AllUnmapped
    => /\ \A a \in AllAddrs : Phys(a) = 0
       /\ TablesAt(pt, ARM_LPAE_MAX_LEVELS - 1) = {}
       /\ \A l \in ARM_LPAE_START_LVL .. (ARM_LPAE_MAX_LEVELS - 2) :
             \A t \in TablesAt(pt, l) : \A i \in DOMAIN pt[t] :
                ~iopte_leaf(pt[t][i], l)

\* a page was mapped and unmapped again and its penultimate-level table is
\* still linked from the root
C7_Witness ==
    /\ AllUnmapped
    /\ OldPhys(last.iova) # 0
    /\ TablesAt(pt, ARM_LPAE_MAX_LEVELS - 2) # {}
    /\ live # {}

RECURSIVE SumLen(_, _)
\* total length of the first n chunks of sg
SumLen(sg, n) == IF n = 0 THEN 0 ELSE SumLen(sg, n - 1) + sg[n].length

RECURSIVE SgPhys(_, _)
\* the physical address the chunks of sg give to the byte at offset off
SgPhys(sg, off) ==
    IF off < sg[1].length
    THEN sg[1].page + sg[1].offset + off
    ELSE SgPhys(Tail(sg), off - sg[1].length)

\* index of the first chunk of sg with a misaligned offset, 0 without one
FirstBad(sg) ==
    LET bad == {i \in 1 .. Len(sg) : ~IS_ALIGNED(sg[i].offset, SetMin(cfg_pgsize_bitmap))}
    IN IF bad = {} THEN 0 ELSE SetMin(bad)

\* the tables after unmap(iova, size) from the state now
AfterUnmap(iova, size) == arm_lpae_unmap(HeapOf(Env0({NoFail})), iova, size)

\* C8: a map_sg that succeeds returns the total length T of its chunks, every
\* byte of [iova, iova + T) then translates to its byte of the chunks in
\* order, no translation outside the range changes, and unmap(iova, T)
\* returns T
C8_MapSgSuccess ==
    (last.op = "map_sg" /\ last.why = "ok" /\ last.ret > 0)
    => /\ last.ret = SumLen(last.sg, Len(last.sg))
       /\ \A a \in RangeAddrs(last.iova, last.ret) :
             Phys(a) = SgPhys(last.sg, a - last.iova)
       /\ \A a \in AllAddrs : ~InRange(a, last.iova, last.ret) => Phys(a) = OldPhys(a)
       /\ AfterUnmap(last.iova, last.ret).ret = last.ret

\* C9: a map_sg that fails part-way returns 0 and sets the remainder to the
\* bytes it installed, which are the prefix [iova, iova + remainder) of the
\* request, and unmap(iova, remainder) gives back the translations from
\* before the call
C9_MapSgPartial ==
    (last.op = "map_sg" /\ last.why = "map")
    => /\ last.ret = 0
       /\ last.rem >= 0
       /\ \A a \in RangeAddrs(last.iova, last.rem) :
             Phys(a) = SgPhys(last.sg, a - last.iova)
       /\ \A a \in AllAddrs : ~InRange(a, last.iova, last.rem) => Phys(a) = OldPhys(a)
       /\ AfterUnmap(last.iova, last.rem).ret = last.rem
       /\ \A a \in AllAddrs :
             arm_lpae_iova_to_phys(AfterUnmap(last.iova, last.rem).h.pt, a) = OldPhys(a)

\* C10 (as stated): a map_sg that finds a chunk of misaligned offset, first
\* or later in the list, returns 0, has written no descriptor and has
\* allocated no table
C10_MisalignedNoEffect ==
    (last.op = "map_sg" /\ last.why = "offset")
    => (last.ret = 0 /\ pt = old.pt /\ live = old.live)

\* C10 (amended): a map_sg that comes to a chunk of misaligned offset returns
\* 0 and sets the remainder to the total length of the chunks before it; it
\* has written nothing and allocated nothing if that chunk is the first, and
\* it leaves what it wrote for the chunks before it otherwise
C10_MisalignedStops ==
    (last.op = "map_sg" /\ last.why = "offset")
    => /\ last.ret = 0
       /\ last.rem = SumLen(last.sg, FirstBad(last.sg) - 1)
       /\ FirstBad(last.sg) = 1
          => (pt = old.pt /\ live = old.live /\ last.log = <<>>)
       /\ FirstBad(last.sg) > 1
          => (last.rem > 0 /\ \E i \in DOMAIN last.log : last.log[i].e = "write")

\* the second chunk was misaligned after the first had been mapped
C10_Witness ==
    /\ last.op = "map_sg" /\ last.why = "offset"
    /\ FirstBad(last.sg) = 2
    /\ last.rem = last.sg[1].length
    /\ Phys(last.iova) = last.sg[1].page /\ OldPhys(last.iova) = 0

\* the write of event i of the last call is covered by a later flush_pgtable
Published(i) ==
    \A s \in last.log[i].i .. (last.log[i].i + last.log[i].n - 1) :
       \E j \in (i + 1) .. Len(last.log) :
          /\ last.log[j].e = "flush"
          /\ last.log[j].t = last.log[i].t
          /\ last.log[j].i <= s /\ s < last.log[j].i + last.log[j].n

\* the writes of the last call to slots of the page tables
TableWrites == {i \in DOMAIN last.log : last.log[i].e = "write" /\ last.log[i].t >= 0}

\* C11: when map, map_sg or unmap returns, every descriptor slot the call
\* wrote (leaf, table pointer, cleared entry, table descriptor with a changed
\* counter) is covered by a flush_pgtable issued after the write
C11_PublishBeforeReturn ==
    (last.op \in {"map", "map_sg", "unmap"}) => \A i \in TableWrites : Published(i)

\* the events e of the last call, in order
EventsOf(e) == {i \in DOMAIN last.log : last.log[i].e = e}

\* C12: an unmap that returns a byte count other than 0 calls tlb_flush_all
\* once, after all its descriptor writes; an unmap that returns 0 does not
\* call it and has changed no descriptor; unmap calls neither tlb_add_flush
\* nor tlb_sync
C12_UnmapTlbFlush ==
    (last.op = "unmap")
    => /\ last.ret # 0
          => /\ Cardinality(EventsOf("tlb_flush_all")) = 1
             /\ EventsOf("tlb_flush_all") = {Len(last.log)}
       /\ last.ret = 0
          => /\ EventsOf("tlb_flush_all") = {}
             /\ EventsOf("write") = {}
             /\ pt = old.pt
       /\ EventsOf("tlb_add_flush") \cup EventsOf("tlb_sync") = {}

\* an unmap split a block, wrote descriptors and invalidated the TLB last
C12_Witness ==
    /\ last.op = "unmap" /\ last.ret = last.size
    /\ EventsOf("alloc") # {} /\ EventsOf("write") # {}
    /\ last.log[Len(last.log)].e = "tlb_flush_all"

\* C13: unmap of a range in which no address is translated returns 0 and
\* changes nothing, whether the walk meets a zero descriptor above or the
\* pages lie in a last-level table that holds other, mapped pages
C13_UnmapOfNothing ==
    (last.op = "unmap" /\ \A a \in RangeAddrs(last.iova, last.size) : OldPhys(a) = 0)
    => (last.ret = 0 /\ pt = old.pt /\ live = old.live)

\* C14: with neither READ nor WRITE in prot, map returns 0 and map_sg returns
\* 0 with remainder 0; no descriptor is written, no table is allocated and no
\* hook is called
C14_NoAccessIsNoop ==
    (last.op \in {"map", "map_sg"} /\ ~HasAccess(last.prot))
    => /\ last.ret = 0
       /\ last.op = "map_sg" => last.rem = 0
       /\ pt = old.pt /\ live = old.live
       /\ last.log = <<>>

\* a map without access was asked for a page that no table reaches yet
C14_Witness ==
    /\ last.op = "map" /\ ~HasAccess(last.prot) /\ last.ret = 0
    /\ ~Covered(pt, last.iova, last.size, ARM_LPAE_START_LVL, 0)
    /\ nops > 1

\* the sizes map can install: the block sizes of the levels that the bitmap has
LeafSizes ==
    {ARM_LPAE_BLOCK_SIZE(l) : l \in ARM_LPAE_START_LVL .. (ARM_LPAE_MAX_LEVELS - 1)}
    \cap cfg_pgsize_bitmap

\* C15: a map that is rejected with -EINVAL, its size being the block size
\* of no level or missing from the bitmap, changes nothing: no table is
\* allocated or linked and no descriptor differs, empty slots on the way
\* included
C15_InvalidSizeRejected ==
    (last.op = "map" /\ last.size \notin LeafSizes /\ last.ret = 0 - EINVAL)
    => (pt = old.pt /\ live = old.live /\ EventsOf("alloc") = {})

\* the tables below the root that table descriptors lead to
Reachable(p) ==
    UNION {TablesAt(p, l) : l \in (ARM_LPAE_START_LVL + 1) .. (ARM_LPAE_MAX_LEVELS - 1)}

\* C16: after every call the allocated tables are the tables reachable from
\* the root, so no table descriptor leads to a freed table; no table is freed
\* twice; and after the final free no table is left allocated
C16_TableLifetime ==
    /\ ~dfree
    /\ IF last.op = "free" THEN live = {} ELSE live = Reachable(pt)

\* slot j of table t was cleared by the last call before its event i
ClearedBefore(t, j, i) ==
    \E k \in 1 .. (i - 1) :
       /\ last.log[k].e = "write" /\ last.log[k].t = t
       /\ last.log[k].i <= j /\ j < last.log[k].i + last.log[k].n

\* C17: an unmap of less than the block size of the penultimate level frees
\* a last-level table only when no entry of it is left non-zero: every entry
\* that was non-zero before the call is one the call cleared
C17_FreedTableWasEmpty ==
    (last.op = "unmap" /\ last.size < ARM_LPAE_BLOCK_SIZE(ARM_LPAE_MAX_LEVELS - 2))
    => \A i \in EventsOf("free") :
          last.log[i].t \in old.live
          => \A j \in DOMAIN old.pt[last.log[i].t] :
                old.pt[last.log[i].t][j] # ZeroPte => ClearedBefore(last.log[i].t, j, i)

\* the last call allocated a stage-2 table of 4 KiB granule
S2Of4K == last.op = "alloc_s2" /\ last.data.ok /\ Pow2(last.data.pg_shift) = SZ_4K

\* C18 (as stated): the stage-2 table of ias 48 and 4 KiB granule has a
\* concatenated root of 16 x 4 KiB, three levels, and SL0 is
\* ~(start_level - 1) in two bits
C18_S2Root48Concatenated ==
    (S2Of4K /\ cfg.ias = 48)
    => /\ last.data.pgd_size = 16 * SZ_4K
       /\ last.data.levels = 3
       /\ last.data.sl0 = NotAnd(ARM_LPAE_MAX_LEVELS - last.data.levels - 1,
                                 ARM_LPAE_TCR_SL0_MASK)

\* C18 (amended): the stage-2 table of 4 KiB granule encodes SL0 as
\* ~(start_level + 1) in two bits; for ias 48 the root is one granule of 512
\* entries and the table has four levels; the root is concatenated, with
\* three levels, when it has at most 16 entries, and is 16 x 4 KiB for ias 43
C18_S2Root ==
    S2Of4K
    => /\ last.data.sl0 = NotAnd(ARM_LPAE_MAX_LEVELS - last.data.levels + 1,
                                 ARM_LPAE_TCR_SL0_MASK)
       /\ cfg.ias = 48 => (last.data.pgd_size = SZ_4K /\ last.data.levels = 4)
       /\ cfg.ias = 43 => (last.data.pgd_size = 16 * SZ_4K /\ last.data.levels = 3)
       /\ cfg.ias \in 40 .. 43
          => (last.data.levels = 3
              /\ last.data.pgd_size = Pow2(cfg.ias - 39) * SZ_4K)

\* a stage-2 table of ias 48 and 4 KiB granule was allocated
C18_Witness == S2Of4K /\ cfg.ias = 48 /\ last.data.sl0 = 2

\* before the last call a block leaf of the penultimate level at its iova
\* was followed by page leaves up to the end of its range
BlockThenPages ==
    LET bs == ARM_LPAE_BLOCK_SIZE(ARM_LPAE_MAX_LEVELS - 2) IN
    /\ last.size > bs /\ IS_ALIGNED(last.iova, bs)
    /\ LeafLevel(old.pt, last.iova, ARM_LPAE_START_LVL, 0) = ARM_LPAE_MAX_LEVELS - 2
    /\ \A a \in RangeAddrs(last.iova + bs, last.size - bs) :
          LeafLevel(old.pt, a, ARM_LPAE_START_LVL, 0) = ARM_LPAE_MAX_LEVELS - 1

\* C19: one unmap(iova, size) over a block leaf followed by page leaves that
\* cover the range returns size and leaves no address of the range translated
C19_MixedUnmap ==
    (last.op = "unmap" /\ BlockThenPages)
    => /\ last.ret = last.size
       /\ \A a \in RangeAddrs(last.iova, last.size) : Phys(a) = 0

\* a block and the page after it were unmapped by one call
C19_Witness ==
    /\ last.op = "unmap" /\ BlockThenPages /\ last.ret = last.size
    /\ \A a \in RangeAddrs(last.iova, last.size) : OldPhys(a) # 0 /\ Phys(a) = 0
    /\ \A a \in AllAddrs : Phys(a) = 0

\* C20: a map that cannot allocate a table returns -ENOMEM after the one
\* allocation that failed; every address translates as before, so no leaf of
\* the failed mapping is installed; the tables the call had linked stay
\* allocated and linked; every table descriptor leads to an allocated table
C20_MapNoMemory ==
    (last.op = "map" /\ last.ret = 0 - ENOMEM)
    => /\ EventsOf("nomem") = {Len(last.log)}
       /\ \A a \in AllAddrs : Phys(a) = OldPhys(a)
       /\ \A i \in EventsOf("alloc") : last.log[i].t \in live \cap Reachable(pt)
       /\ EventsOf("free") = {}
       /\ old.live \subseteq live
       /\ Reachable(pt) \subseteq live

\* the allocation of the last-level table failed after the table above it
\* had been allocated and linked
C20_Witness ==
    /\ last.op = "map" /\ last.ret = 0 - ENOMEM
    /\ EventsOf("alloc") # {}
    /\ live # old.live
    /\ TablesAt(pt, ARM_LPAE_MAX_LEVELS - 2) # TablesAt(old.pt, ARM_LPAE_MAX_LEVELS - 2)

\* the descriptors of level lvl that are not zero, as (table, index) pairs
DescsAt(lvl) ==
    {s \in TablesAt(pt, lvl) \X (0 .. (SetMax({PgdEntries, PtesPerTable}) - 1)) :
        s[1] >= 0 /\ s[2] \in DOMAIN pt[s[1]] /\ pt[s[1]][s[2]] # ZeroPte}

\* every descriptor has a type its level allows: a page leaf with AF at the
\* last level, a block leaf or a descriptor of an allocated table above it
TypesFitLevels ==
    /\ \A s \in DescsAt(ARM_LPAE_MAX_LEVELS - 1) :
          /\ iopte_type(pt[s[1]][s[2]]) = ARM_LPAE_PTE_TYPE_PAGE
          /\ BitAnd(pt[s[1]][s[2]].lo, LO_AF) = LO_AF
    /\ \A l \in ARM_LPAE_START_LVL .. (ARM_LPAE_MAX_LEVELS - 2) :
          \A s \in DescsAt(l) :
             \/ iopte_type(pt[s[1]][s[2]]) = ARM_LPAE_PTE_TYPE_BLOCK
             \/ /\ iopte_type(pt[s[1]][s[2]]) = ARM_LPAE_PTE_TYPE_TABLE
                /\ iopte_deref(pt[s[1]][s[2]]) \in live

\* C21: after every map, map_sg and unmap the descriptors of the last level
\* are page leaves with AF, those of the levels above are block leaves or
\* descriptors of allocated tables, and no walk has taken the output address
\* of a block leaf for a table and written there
C21_LevelTypes == TypesFitLevels /\ ~wild

\* the leaf descriptors of the tables, as (table, index) pairs
Leaves ==
    UNION {{s \in DescsAt(l) : iopte_leaf(pt[s[1]][s[2]], l)} :
             l \in ARM_LPAE_START_LVL .. (ARM_LPAE_MAX_LEVELS - 1)}

\* C22: the output address of every leaf that map, map_sg or a block split
\* installed is aligned to the granule and below 2^oas, whatever physical
\* address the caller passed
C22_LeafAddress ==
    \A s \in Leaves :
       /\ IS_ALIGNED(pt[s[1]][s[2]].addr, Granule)
       /\ pt[s[1]][s[2]].addr < Pow2(cfg_oas)

\* the table descriptors of level lvl, as (table, index) pairs
TableDescs(lvl) == {s \in DescsAt(lvl) : ~iopte_leaf(pt[s[1]][s[2]], lvl)}

\* the last call installed a block leaf above the last level
BlockMapped ==
    /\ last.op = "map" /\ last.ret = 0 /\ HasAccess(last.prot)
    /\ last.size \in LeafSizes /\ last.size > Granule

\* C23: only a page leaf of the last level counts: the counter of every table
\* descriptor above the penultimate level is zero, and a map that installs a
\* block leaf leaves the counter of every table descriptor as it was, at
\* zero for a table the call created
C23_OnlyPagesCount ==
    /\ \A l \in ARM_LPAE_START_LVL .. (ARM_LPAE_MAX_LEVELS - 3) :
          \A s \in TableDescs(l) : iopte_tblcnt(pt[s[1]][s[2]]) = 0
    /\ BlockMapped
       => \A l \in ARM_LPAE_START_LVL .. (ARM_LPAE_MAX_LEVELS - 2) :
             \A s \in TableDescs(l) :
                iopte_tblcnt(pt[s[1]][s[2]]) = iopte_tblcnt(old.pt[s[1]][s[2]])

\* the table descriptors of all levels
AllTableDescs ==
    UNION {TableDescs(l) : l \in ARM_LPAE_START_LVL .. (ARM_LPAE_MAX_LEVELS - 2)}

\* C24: the counter embedded in a table descriptor never wraps: after every
\* map, map_sg and unmap it lies between 0 and the number of entries of a
\* table, and an unmap, also one whose size covers more last-level slots
\* than are mapped, leaves no counter larger than it was
C24_CounterInRange ==
    /\ \A s \in AllTableDescs :
          /\ 0 <= iopte_tblcnt(pt[s[1]][s[2]])
          /\ iopte_tblcnt(pt[s[1]][s[2]]) <= PtesPerTable
    /\ last.op = "unmap"
       => \A s \in AllTableDescs :
             iopte_tblcnt(pt[s[1]][s[2]]) <= iopte_tblcnt(old.pt[s[1]][s[2]])

\* event k of the last call is e on n entries from slot j of table t
IsEvent(k, e, t, j, n) ==
    /\ k \in DOMAIN last.log
    /\ last.log[k].e = e /\ last.log[k].t = t /\ last.log[k].i = j /\ last.log[k].n = n

\* the writes of the last call to slot j of table t after its event k
WritesAfter(k, t, j) ==
    {w \in EventsOf("write") :
        /\ w > k /\ last.log[w].t = t
        /\ last.log[w].i <= j /\ j < last.log[w].i + last.log[w].n}

\* C25: a map that finds an empty slot above the leaf level allocates the
\* table zero-filled, publishes the whole table, then writes the table
\* descriptor (counter zero, NSTABLE iff the ARM_NS quirk) into the slot and
\* then publishes the slot; the slot never leads to an unpublished table
C25_TableLinkOrder ==
    (last.op \in {"map", "map_sg"})
    => \A a \in EventsOf("alloc") :
          LET t == last.log[a].t IN
          /\ IsEvent(a + 1, "flush", t, 0, Granule \div sizeof_iopte)
          /\ a + 3 \in DOMAIN last.log
          /\ last.log[a + 2].e = "write" /\ last.log[a + 2].n = 1
          /\ IsEvent(a + 3, "flush", last.log[a + 2].t, last.log[a + 2].i, 1)
          /\ \A j \in DOMAIN pt[t] : pt[t][j] # ZeroPte => WritesAfter(a, t, j) # {}
          /\ last.log[a + 2].t >= 0
             => LET slot == pt[last.log[a + 2].t][last.log[a + 2].i] IN
                /\ iopte_type(slot) = ARM_LPAE_PTE_TYPE_TABLE
                /\ iopte_deref(slot) = t
                /\ slot.nst = (IF "ARM_NS" \in cfg.quirks THEN 1 ELSE 0)
                /\ iopte_tblcnt(slot)
                      = Cardinality(WritesAfter(a + 2, last.log[a + 2].t, last.log[a + 2].i))

\* a map created the tables of two levels under the ARM_NS quirk
C25_Witness ==
    /\ last.op = "map" /\ last.ret = 0 /\ "ARM_NS" \in cfg.quirks
    /\ Cardinality(EventsOf("alloc")) = 2
    /\ TablesAt(pt, ARM_LPAE_MAX_LEVELS - 1) # {}

\* the writes of the last call to the last-level tables: its page leaves
LeafWrites ==
    {w \in EventsOf("write") : last.log[w].t \in TablesAt(pt, ARM_LPAE_MAX_LEVELS - 1)}

\* the flush_pgtable calls after the write w that cover its slot
FlushesOf(w) ==
    {f \in EventsOf("flush") :
        /\ f > w /\ last.log[f].t = last.log[w].t
        /\ last.log[f].i <= last.log[w].i
        /\ last.log[w].i < last.log[f].i + last.log[f].n}

\* the page leaves that the flush f publishes
BatchOf(f) == {w \in LeafWrites : f \in FlushesOf(w)}

CounterSpace == (BOTTOM_IGNORED_MASK + 1) * (TOP_IGNORED_MASK + 1)

\* C26: in a map_sg that succeeds, the page leaves of one last-level table
\* (one aligned 2M window) form one batch: they are written with no publish
\* between them and published by one flush_pgtable that starts at the first
\* slot of the batch and spans as many descriptors as the batch has; every
\* page leaf and every block leaf of the call is covered by exactly one
\* flush_pgtable, and the counter of the parent descriptor of a last-level
\* table grows by one per page leaf
C26_BatchedPublish ==
    (last.op = "map_sg" /\ last.why = "ok" /\ last.ret > 0)
    => /\ \A w \in LeafWrites : Cardinality(FlushesOf(w)) = 1
       /\ \A f \in EventsOf("flush") :
             BatchOf(f) # {}
             => /\ last.log[f].n = Cardinality(BatchOf(f))
                /\ last.log[f].i = last.log[SetMin(BatchOf(f))].i
                /\ EventsOf("flush") \cap (SetMin(BatchOf(f)) .. SetMax(BatchOf(f))) = {}
       /\ \A w1, w2 \in LeafWrites :
             last.log[w1].t = last.log[w2].t => FlushesOf(w1) = FlushesOf(w2)
       /\ \A l \in ARM_LPAE_START_LVL .. (ARM_LPAE_MAX_LEVELS - 2) :
             \A s \in DescsAt(l) :
                (iopte_leaf(pt[s[1]][s[2]], l) /\ old.pt[s[1]][s[2]] = ZeroPte)
                => /\ WritesAfter(0, s[1], s[2]) # {}
                   /\ Cardinality(FlushesOf(SetMin(WritesAfter(0, s[1], s[2])))) = 1
       /\ \A s \in TableDescs(ARM_LPAE_MAX_LEVELS - 2) :
             (iopte_tblcnt(pt[s[1]][s[2]]) - iopte_tblcnt(old.pt[s[1]][s[2]])) % CounterSpace
                = Cardinality({w \in LeafWrites :
                                 last.log[w].t = iopte_deref(pt[s[1]][s[2]])})

\* a map_sg made two batches of two page leaves each, in two tables
C26_Witness ==
    /\ last.op = "map_sg" /\ last.why = "ok"
    /\ Cardinality(LeafWrites) = 4
    /\ Cardinality({f \in EventsOf("flush") : Cardinality(BatchOf(f)) = 2}) = 2

\* level of the leaf that translated the iova of the last call before it
OldLeafLevel == LeafLevel(old.pt, last.iova, ARM_LPAE_START_LVL, 0)

RECURSIVE SlotAt(_, _, _, _)
\* the slot of level lvl that the walk of the tables p for iova comes to
SlotAt(p, iova, lvl, l) ==
    IF l = ARM_LPAE_START_LVL
    THEN <<0, ARM_LPAE_LVL_IDX(iova, l)>>
    ELSE LET up == SlotAt(p, iova, lvl, l - 1)
         IN <<iopte_deref(p[up[1]][up[2]]), ARM_LPAE_LVL_IDX(iova, l)>>

\* the size of the first walk of the last unmap
FirstUnmapSize ==
    IF last.size < SZ_2M THEN last.size
    ELSE iommu_pgsize(cfg.pgsize_bitmap, last.iova, last.size)

\* the last call was an unmap whose one walk split a block leaf
SplitDone ==
    /\ last.op = "unmap"
    /\ OldLeafLevel # 0 /\ OldLeafLevel < ARM_LPAE_MAX_LEVELS - 1
    /\ FirstUnmapSize < ARM_LPAE_BLOCK_SIZE(OldLeafLevel)
    /\ last.ret = ARM_LPAE_BLOCK_SIZE(OldLeafLevel + 1)
    /\ last.ret >= last.size

\* C27: after a block split that succeeded every surviving sub-block leaf of
\* the new table translates its addresses as the block did and has the
\* attribute bits of the block; the descriptor of the new table replaces the
\* block by one write, made after the writes of all sub-block leaves, and
\* its counter is the number of leaves installed
C27_SplitKeepsRest ==
    SplitDone
    => LET l == OldLeafLevel
           sub == ARM_LPAE_BLOCK_SIZE(l + 1)
           b0 == round_down(last.iova, ARM_LPAE_BLOCK_SIZE(l))
           slot == SlotAt(old.pt, last.iova, l, l)
           blk == old.pt[slot[1]][slot[2]]
           new == pt[slot[1]][slot[2]]
           T == iopte_deref(new)
           kept == {k \in 0 .. (PtesPerTable - 1) : b0 + (k * sub) # last.iova}
       IN /\ iopte_type(new) = ARM_LPAE_PTE_TYPE_TABLE
          /\ T \in live \ old.live
          /\ \A k \in kept :
                /\ iopte_leaf(pt[T][k], l + 1)
                /\ pt[T][k].lo = blk.lo /\ pt[T][k].hi = blk.hi
                /\ \A a \in RangeAddrs(b0 + (k * sub), sub) : Phys(a) = OldPhys(a)
          /\ Cardinality(WritesAfter(0, slot[1], slot[2])) = 1
          /\ \A w \in EventsOf("write") :
                last.log[w].t = T => w < SetMin(WritesAfter(0, slot[1], slot[2]))
          /\ iopte_tblcnt(new) = Cardinality(kept)
          /\ iopte_tblcnt(new) = NonZero(pt, T)

\* the last call was an unmap of no more than a sub-block of the block leaf
\* that its walk came to, and the split of the block failed
SplitFailed ==
    /\ last.op = "unmap"
    /\ OldLeafLevel # 0 /\ OldLeafLevel < ARM_LPAE_MAX_LEVELS - 1
    /\ last.size <= ARM_LPAE_BLOCK_SIZE(OldLeafLevel + 1)
    /\ EventsOf("nomem") # {} \/ last.ret = 0

\* C28: a block split in which the installation of a sub-block fails, by the
\* allocation of the new table or later, returns 0; every table allocated
\* during the split is freed again, and the block descriptor and the
\* counters of the table descriptors above it are as before
C28_SplitFailure ==
    SplitFailed
    => /\ last.ret = 0
       /\ live = old.live
       /\ \A a \in EventsOf("alloc") :
             \E f \in EventsOf("free") : f > a /\ last.log[f].t = last.log[a].t
       /\ ~dfree
       /\ pt = old.pt

\* the split had allocated two tables when it failed
C28_Witness ==
    /\ SplitFailed /\ last.ret = 0
    /\ Cardinality(EventsOf("alloc")) = 2 /\ Cardinality(EventsOf("free")) = 2
    /\ old.live # {}

\* the last call allocated a stage-2 table
S2Done == last.op = "alloc_s2" /\ last.data.ok

\* the walk without concatenation: its depth and the entries of its top table
PlainLevels ==
    LET va == cfg.ias - last.data.pg_shift
    IN CHOOSE n \in 1 .. 8 :
          n * last.data.bits_per_level >= va /\ (n - 1) * last.data.bits_per_level < va

PlainTopEntries ==
    Pow2((cfg.ias - last.data.pg_shift) - ((PlainLevels - 1) * last.data.bits_per_level))

\* the concatenation rule of stage 2 for the last allocation
ConcatRule ==
    IF PlainLevels = ARM_LPAE_MAX_LEVELS
       /\ PlainTopEntries <= ARM_LPAE_S2_MAX_CONCAT_PAGES
    THEN /\ last.data.pgd_size = PlainTopEntries * Pow2(last.data.pg_shift)
         /\ last.data.levels = 3
    ELSE /\ last.data.pgd_size = PlainTopEntries * sizeof_iopte
         /\ last.data.levels = PlainLevels

\* the highest input address has the index of the last entry of the root
RootIdxOfLast ==
    LvlIdxOfLast(last.data, cfg.ias, ARM_LPAE_MAX_LEVELS - last.data.levels) + 1
       = last.data.pgd_size \div sizeof_iopte

\* C29: the stage-2 allocator concatenates iff the plain walk has four levels
\* and a top table of at most 16 entries; the root is then as many granules
\* as that table has entries and the walk has three levels; otherwise root
\* and depth are the plain ones.  Either way the index of the start level
\* addresses exactly the pgd_size / 8 entries of the root: it reaches the
\* last entry and its mask lets no index beyond the root through
C29_S2Concatenation ==
    S2Done
    => /\ ConcatRule
       /\ RootIdxOfLast
       /\ Pow2(LvlIdxBitsOf(last.data, ARM_LPAE_MAX_LEVELS - last.data.levels))
             = last.data.pgd_size \div sizeof_iopte

\* bits 7..6 of the VTCR of the last allocation
Sl0Bits == (S2VtcrLow(last.data) \div Pow2(6)) % 4

\* C30: for stage 2 the SL0 field, bits 7..6 of VTCR, is ~start_level in two
\* bits for the granules of 16 KiB and 64 KiB and ~(start_level + 1) in two
\* bits for the granule of 4 KiB, start_level being 4 - levels after the
\* concatenation
C30_S2StartLevel ==
    S2Done
    => LET start_level == 4 - last.data.levels
       IN /\ Pow2(last.data.pg_shift) \in {SZ_16K, SZ_64K}
             => Sl0Bits = 3 - (start_level % 4)
          /\ Pow2(last.data.pg_shift) = SZ_4K
             => Sl0Bits = 3 - ((start_level + 1) % 4)

\* a table of 16 KiB granule for ias 48 was concatenated to three levels and
\* got the SL0 of start level 1
C30_Witness ==
    /\ S2Done /\ cfg.ias = 48 /\ Pow2(last.data.pg_shift) = SZ_16K
    /\ PlainLevels = 4 /\ last.data.levels = 3
    /\ Sl0Bits = 2

\* the granule that the requested page sizes select, 0 if they list nothing
RequestedGranule ==
    LET below == {z \in last.bitmap : z < PAGE_SIZE}
        above == {z \in last.bitmap : z > PAGE_SIZE}
    IN IF PAGE_SIZE \in last.bitmap THEN PAGE_SIZE
       ELSE IF below # {} THEN CHOOSE z \in below : \A y \in below : y <= z
       ELSE IF above # {} THEN CHOOSE z \in above : \A y \in above : z <= y
       ELSE 0

\* the block sizes of the three granules
GranuleSizes(g) ==
    IF g = SZ_4K THEN {SZ_4K, 512 * SZ_4K, SZ_1G}
    ELSE IF g = SZ_16K THEN {SZ_16K, SZ_32M}
    ELSE {SZ_64K, SZ_512M}

\* the sizes of pgsize_bitmap that are the block size of no level of the tree
\* of the last allocation (sizes are powers of two, compared by exponent)
SizesOffTree ==
    {z \in cfg.pgsize_bitmap :
        \A lvl \in (ARM_LPAE_MAX_LEVELS - last.data.levels) .. (ARM_LPAE_MAX_LEVELS - 1) :
            __ffs(z) # LvlShiftOf(last.data, lvl)}

\* C31: the allocator restricts pgsize_bitmap to the block sizes of the
\* granule that the listed sizes select (the CPU page size, else the largest
\* listed size below it, else the smallest above it); it fails and allocates
\* no root if none of 4K, 16K, 64K is left or ias or oas exceeds 48; after a
\* successful allocation every size of pgsize_bitmap is the block size of a
\* level of the tree
C31_RestrictedBitmap ==
    last.op = "alloc_s2"
    => /\ RequestedGranule \in {SZ_4K, SZ_16K, SZ_64K}
          => cfg.pgsize_bitmap = last.bitmap \cap GranuleSizes(RequestedGranule)
       /\ (cfg.pgsize_bitmap \cap {SZ_4K, SZ_16K, SZ_64K} = {}
           \/ cfg.ias > 48 \/ cfg.oas > 48)
          => (~last.data.ok /\ ~last.data.pgd)
       /\ last.data.ok => SizesOffTree = {}

\* C32: unmap(iova, size) changes the translation of no address outside
\* [iova, iova + size): every address outside the range that translated
\* before the call translates to the same physical address after it
C32_UnmapFrame ==
    last.op = "unmap"
    => \A a \in AllAddrs :
          (~InRange(a, last.iova, last.size) /\ OldPhys(a) # 0) => Phys(a) = OldPhys(a)

\* the granules of the range of the last call that translated before the
\* call and do not translate after it
GranulesRemoved ==
    {g \in 0 .. ((last.size \div Granule) - 1) :
        /\ LeafLevel(old.pt, last.iova + (g * Granule), ARM_LPAE_START_LVL, 0) # 0
        /\ LeafLevel(pt, last.iova + (g * Granule), ARM_LPAE_START_LVL, 0) = 0}

\* the first walk of the last unmap came to a block leaf larger than its size
SplitWalked ==
    /\ last.op = "unmap"
    /\ OldLeafLevel # 0 /\ OldLeafLevel < ARM_LPAE_MAX_LEVELS - 1
    /\ FirstUnmapSize < ARM_LPAE_BLOCK_SIZE(OldLeafLevel)

\* C33: unmap(iova, size) returns no more than size, and what it returns is
\* the number of bytes of [iova, iova + size) whose translation it removed;
\* an unmap that splits a block returns the size of the requested hole
C33_UnmapReturn ==
    last.op = "unmap"
    => /\ last.ret <= last.size
       /\ last.ret = Cardinality(GranulesRemoved) * Granule
       /\ (SplitWalked /\ last.ret # 0) => last.ret = last.size

\* the number of entries of a table of level l
EntriesAt(l) == IF l = ARM_LPAE_START_LVL THEN PgdEntries ELSE PtesPerTable

\* every slot that the last call wrote or flushed in a table lies in the table
LogInTables ==
    \A k \in DOMAIN last.log :
        (last.log[k].e \in {"write", "flush"} /\ last.log[k].t >= 0)
        => /\ last.log[k].i >= 0
           /\ last.log[k].i + last.log[k].n
                 <= (IF last.log[k].t = 0 THEN PgdEntries ELSE PtesPerTable)

\* the greatest ARM_LPAE_LVL_IDX of level l over the input addresses below
\* 2^ias for the page table of the last allocation, taken on the exponents
MaxIdxOfLast(l) ==
    Pow2(Min(cfg.ias - LvlShiftOf(last.data, l), LvlIdxBitsOf(last.data, l))) - 1

\* the indices of the page table of the last allocation stay in its tables
AllocIndexBounds ==
    S2Done
    => \A l \in (ARM_LPAE_MAX_LEVELS - last.data.levels) .. (ARM_LPAE_MAX_LEVELS - 1) :
          MaxIdxOfLast(l) < (IF l = ARM_LPAE_MAX_LEVELS - last.data.levels
                             THEN last.data.pgd_size \div sizeof_iopte
                             ELSE Pow2(last.data.bits_per_level))

\* C34: for every input address below 2^ias the index of the start level is
\* smaller than pgd_size / 8 and the index of every lower level is smaller
\* than 2^bits_per_level, so that no operation reads or writes outside a table
C34_IndexBounds ==
    /\ \A a \in AllAddrs :
          \A l \in ARM_LPAE_START_LVL .. (ARM_LPAE_MAX_LEVELS - 1) :
              ARM_LPAE_LVL_IDX(a, l) < EntriesAt(l)
    /\ AllocIndexBounds
    /\ LogInTables
    /\ ~wild

\* the positions of the fields SH0, IRGN0, ORGN0, TG0, PS, T0SZ and SL0
VtcrFieldBits ==
    (12 .. 13) \cup (8 .. 9) \cup (10 .. 11) \cup (14 .. 15) \cup (16 .. 18)
    \cup (0 .. 5) \cup (6 .. 7)

\* the value of the bits lo .. hi of the register of the last allocation
VtcrField(lo, hi) ==
    LET RECURSIVE Sum(_)
        Sum(k) == IF k > hi THEN 0
                  ELSE (IF k \in last.data.vtcr THEN Pow2(k - lo) ELSE 0) + Sum(k + 1)
    IN Sum(lo)

\* the last call was the 32-bit allocator of stage 2 and it succeeded
S2Done32 == last.op = "alloc32_s2" /\ last.data.ok

\* C35: the VTCR of the 64-bit allocator of stage 2 has bit 31 set and besides
\* it only the fields SH0, IRGN0, ORGN0, TG0, PS, T0SZ = 64 - ias and SL0;
\* every other bit, every bit of 63..32 among them, is zero; the VTCR of the
\* 32-bit allocator is the 64-bit value masked to its low 32 bits
C35_S2Vtcr ==
    /\ S2Done
       => /\ 31 \in last.data.vtcr
          /\ last.data.vtcr \ {31} \subseteq VtcrFieldBits
          /\ VtcrField(0, 5) = 64 - cfg.ias
          /\ last.data.vtcr \cap (32 .. 63) = {}
    /\ S2Done32
       => \E pgd \in BOOLEAN, sx \in BOOLEAN :
             LET d == S2WithVtcr(arm_64_lpae_alloc_pgtable_s2(
                                     [cfg EXCEPT !.pgsize_bitmap = last.bitmap
                                                      \cap {SZ_4K, 512 * SZ_4K, SZ_1G}], pgd), sx)
             IN d.ok /\ last.data.vtcr = d.vtcr \cap (0 .. 31)

\* the last call was a map that installed the leaf of its iova
MapInstalled ==
    /\ last.op = "map" /\ last.ret = 0 /\ HasAccess(last.prot) /\ ~wild
    /\ LeafLevel(old.pt, last.iova, ARM_LPAE_START_LVL, 0) = 0
    /\ LeafLevel(pt, last.iova, ARM_LPAE_START_LVL, 0) # 0

\* the leaf that translates the iova of the last call
LastLeaf ==
    LET l == LeafLevel(pt, last.iova, ARM_LPAE_START_LVL, 0)
        s == SlotAt(pt, last.iova, l, l)
    IN pt[s[1]][s[2]]

\* AttrIdx is bits 4..2 of a stage-1 leaf, MemAttr bits 5..2 of a stage-2 leaf
AttrIdx(pte) == pte.lo % 8
MemAttr(pte) == pte.lo % 16

\* C36: the memory type of prot selects the attribute of the leaf in both
\* formats: DEVICE without CACHE gives the device type (AttrIdx 2, MemAttr
\* 0x1), CACHE gives write-back (AttrIdx 1, MemAttr 0xf), neither gives
\* non-cacheable (AttrIdx 0, MemAttr 0x5); the AttrIdx of a leaf names a MAIR
\* slot that the allocator programmed
C36_MemoryType ==
    MapInstalled
    => LET dev == "DEVICE" \in last.prot /\ "CACHE" \notin last.prot
           wb == "CACHE" \in last.prot
       IN IF IsS1(cfg.fmt)
          THEN /\ dev => AttrIdx(LastLeaf) = 2
               /\ wb => AttrIdx(LastLeaf) = 1
               /\ (~dev /\ ~wb) => AttrIdx(LastLeaf) = 0
               /\ AttrIdx(LastLeaf) \in MairSlots
          ELSE /\ dev => MemAttr(LastLeaf) = 1
               /\ wb => MemAttr(LastLeaf) = 15
               /\ (~dev /\ ~wb) => MemAttr(LastLeaf) = 5

\* a rule that holds the counter q2_get_counter returned to it and has not
\* entered quota_mt2_destroy
Holds(t) == rule[t].pc = "loaded"

HeldCountersLive ==
    \A t \in Rules :
       Holds(t) => counters[rule[t].master].st = "alloc" /\ OnList(rule[t].master)

FreedOnceAtZero ==
    \A a \in Addrs :
       /\ counters[a].frees <= 1
       /\ (counters[a].returned /\ counters[a].st = "free") => counters[a].ref = 0

NamesUnique ==
    \A i, j \in 1 .. Len(counter_list) :
       counters[counter_list[i]].name = counters[counter_list[j]].name => i = j

\* C37: under any interleaving of q2_get_counter and quota_mt2_destroy for the
\* same name, proc_create_data failing included, a counter that was returned
\* to a caller stays allocated and on counter_list until that caller's own
\* quota_mt2_destroy; it is freed exactly once, at reference count zero; and
\* counter_list never holds two counters of one name.
C37_NamedCounter == HeldCountersLive /\ FreedOnceAtZero /\ NamesUnique

\* the transfer is one whose setup handler returned USB_GADGET_DELAYED_STATUS
\* with no data stage
DelayedTwoStage == xfer.delayed /\ ~dwc.three_stage_setup

====
